---------------------------- MODULE Spec2Model ----------------------------
(***************************************************************************)
(* A model of the ubxlib port OS layer for ESP32/FreeRTOS (u_port_os.c):   *)
(* tasks, queues, mutexes, counting semaphores and timers wrapped over the *)
(* FreeRTOS kernel, with the resource counter gResourceAllocCount.         *)
(*                                                                         *)
(* Every public function is modelled at the granularity of its kernel      *)
(* calls and of its atomic counter update: a step of the model is one      *)
(* kernel call together with the local computation before it, or one       *)
(* U_ATOMIC_INCREMENT / U_ATOMIC_DECREMENT together with the return.       *)
(* Tasks interleave between these steps.                                   *)
(***************************************************************************)
EXTENDS Integers, Sequences, FiniteSets, TLC

(***************************************************************************)
(* Bounds of the model.                                                    *)
(***************************************************************************)
\* Number of task control blocks the kernel can hold (task 1 is the main task).
MaxTasks == 2
\* Number of addresses the kernel heap hands out for queues, mutexes,
\* semaphores and timers.
MaxHandles == 2
\* Cap on the number of kernel objects created through the layer in one run.
MaxCreates == 2
\* Cap on the number of kernel delete calls made through the layer in one run.
MaxDestroys == 2
\* Largest queue length and largest semaphore limit tried.
MaxLen == 2
\* Cap on the number of semaphore and queue calls recorded in one run.
MaxLog == 6
\* The kernel's time, in milliseconds, is followed up to MaxTime.
MaxTime == 20
\* The polls of the inactivity detector that are followed, and the changes
\* of the activity counter between two polls.
MaxPolls == 4
MaxMoves == 2
\* The failed attempts of one uPortQueueSend() of the diagnostic build that
\* are counted.
MaxRetries == 2
\* The calls on a queue whose order is followed.
MaxFifoLog == 4
\* The times the module is powered off or rebooted.
MaxBoots == 2

(***************************************************************************)
(* Program constants.                                                      *)
(***************************************************************************)
NULL == 0
U_ERROR_COMMON_SUCCESS == 0
U_ERROR_COMMON_INVALID_PARAMETER == -5
U_ERROR_COMMON_PLATFORM == -8
U_ERROR_COMMON_TIMEOUT == -9
U_CFG_OS_PRIORITY_MIN == 1
U_CFG_OS_PRIORITY_MAX == 15
\* portTICK_PERIOD_MS: milliseconds per kernel tick (ESP-IDF default, 100 Hz).
portTICK_PERIOD_MS == 10

\* portMAX_DELAY: the wait, in ticks, that means "for ever": the all-ones
\* tick count, (TickType_t) -1, which no wait computed from milliseconds
\* in the model reaches.
portMAX_DELAY == -1

\* U_CFG_OS_YIELD_MS: the time to block for so that a yield occurs.
U_CFG_OS_YIELD_MS == 1

\* The largest and the smallest int32_t.
INT32_MAX == 2147483647
INT32_MIN == -INT32_MAX - 1

Tasks == 1..MaxTasks
MainTask == CHOOSE t \in Tasks : \A u \in Tasks : t <= u
Handles == 1..MaxHandles
\* A pointer argument is either NULL or the address of caller storage.
ValidPtr == NULL + 1
Pointers == {NULL, ValidPtr}
\* Task priorities tried: both configured bounds and their outer neighbours.
Priorities == {U_CFG_OS_PRIORITY_MIN - 1, U_CFG_OS_PRIORITY_MIN,
               U_CFG_OS_PRIORITY_MAX, U_CFG_OS_PRIORITY_MAX + 1}

VARIABLES
    gResourceAllocCount, \* the resource counter of u_port_os.c
    kObj,        \* kernel heap: address -> the object living there
    pc,          \* task -> where the task is in the call it is making
    cur,         \* task -> the call the task is in the middle of, if any
    last,        \* the call that returned in the step just taken, if one did
    crashed,     \* the kernel was handed a dangling handle and the system died
    kCreated,    \* history: kernel objects created through the layer
    kDestroyed,  \* history: kernel delete calls made through the layer
    nCreateOk,   \* history: create calls that returned success
    nDestroyOk,  \* history: destroy calls that returned success
    nSelfDel,    \* history: uPortTaskDelete(NULL) calls that deleted the caller
    log,         \* history: address -> calls completed on the object there
    wd,          \* the inactivity detector: its counter, samples and reports
    sec,         \* the module's security state: C2C session and seal
    mtx,         \* the mutex debug layer: task -> the call it passes on
    now,         \* kernel time, in milliseconds since the scheduler started
    cfg          \* the build and the run: tickMs is the kernel's tick period,
                 \* history tells whether log is kept, timed whether the
                 \* run follows the kernel's time

vars == <<gResourceAllocCount, kObj, pc, cur, last, crashed,
          kCreated, kDestroyed, nCreateOk, nDestroyOk, nSelfDel, log,
          now, cfg, wd, sec, mtx>>
\* What no call of the layer changes: time passes between calls only, and
\* the watchdog, the security session and the mutex debug layer are clients
\* of the layer.
env == <<now, cfg, wd, sec, mtx>>

(***************************************************************************)
(* Kernel objects.  FreeRTOS mutexes and counting semaphores are queues    *)
(* with no item storage: count is the number of tokens available.          *)
(* init remembers the count the object was created with; holder is the    *)
(* task holding a mutex (NULL: none); a timer has its period in ticks in   *)
(* cap and count 1 while it runs.                                          *)
(***************************************************************************)
Obj(kind, cap, count) ==
    [kind |-> kind, cap |-> cap, count |-> count, init |-> count,
     items |-> <<>>, holder |-> NULL]
FreeObj == Obj("free", 0, 0)
QueueObj(len) == Obj("queue", len, 0)
MutexObj == Obj("mutex", 1, 1)
SemObj(limit, initialCount) == Obj("sem", limit, initialCount)
TimerObj == Obj("timer", 0, 0)

Live(h) == h \in Handles /\ kObj[h].kind # "free"
\* The kinds vQueueDelete / vSemaphoreDelete can free: all are queues inside.
QueueFamily == {"queue", "mutex", "sem"}
FreeHandles == {h \in Handles : kObj[h].kind = "free"}
FreeTaskSlots == {s \in Tasks : pc[s] = "dead"}

(***************************************************************************)
(* The record of a call: its name, its arguments, whether the handle       *)
(* argument named a live object when the call was made (live), whether the *)
(* call reached the kernel (kc), the net change of the counter over the    *)
(* steps of the call (delta), the handle written to the output pointer    *)
(* or the item copied to the caller's buffer (out), the time of the call   *)
(* (t0), whether a kernel call it made reported failure (kfail), whether   *)
(* the kernel set the higher-priority-task-woken flag (woken), whether     *)
(* taskYIELD() was called (yielded), and once it has returned the task     *)
(* that made it (by) and its return value (ret).                           *)
(***************************************************************************)
Call(op, f, p, h, a, b) ==
    [op |-> op, f |-> f, p |-> p, h |-> h, a |-> a, b |-> b,
     live |-> IF op = "TaskDelete" THEN h \in Tasks /\ pc[h] # "dead"
                                   ELSE Live(h),
     kc |-> FALSE, delta |-> 0, out |-> NULL, t0 |-> now, kfail |-> FALSE,
     woken |-> FALSE, yielded |-> FALSE, notices |-> 0, by |-> 0, ret |-> 0]
NoCall == [Call("none", NULL, NULL, NULL, 0, 0) EXCEPT !.t0 = 0]

\* What the step being taken adds to the counter; every action fixes the
\* counter's next value before it records the call.
CountStep == gResourceAllocCount' - gResourceAllocCount

CreateOps == {"TaskCreate", "QueueCreate", "MutexCreate", "SemaphoreCreate",
              "TimerCreate"}
DestroyOps == {"TaskDelete", "QueueDelete", "MutexDelete", "SemaphoreDelete",
               "TimerDelete"}

\* The call returns r: the task is idle again and the history counts it.
Return(t, c, r) ==
    /\ pc' = [pc EXCEPT ![t] = "idle"]
    /\ cur' = [cur EXCEPT ![t] = NoCall]
    /\ last' = [c EXCEPT !.by = t, !.ret = r, !.delta = @ + CountStep]
    /\ nCreateOk' = IF c.op \in CreateOps /\ r = U_ERROR_COMMON_SUCCESS
                    THEN nCreateOk + 1 ELSE nCreateOk
    /\ nDestroyOk' = IF c.op \in DestroyOps /\ r = U_ERROR_COMMON_SUCCESS
                     THEN nDestroyOk + 1 ELSE nDestroyOk
    /\ UNCHANGED env

\* The same for a call of a client of the layer, which says itself what
\* becomes of the client's state.
ClientReturn(t, c, r) ==
    /\ pc' = [pc EXCEPT ![t] = "idle"]
    /\ cur' = [cur EXCEPT ![t] = NoCall]
    /\ last' = [c EXCEPT !.by = t, !.ret = r]
    /\ UNCHANGED <<gResourceAllocCount, kObj, crashed, kCreated, kDestroyed,
                   nCreateOk, nDestroyOk, nSelfDel, log, now, cfg>>

\* The call goes on at position at.
Goto(t, c, at) ==
    /\ pc' = [pc EXCEPT ![t] = at]
    /\ cur' = [cur EXCEPT ![t] = [c EXCEPT !.delta = @ + CountStep]]
    /\ last' = NoCall
    /\ UNCHANGED <<nCreateOk, nDestroyOk, env>>

CanCall(t) == ~crashed /\ pc[t] = "idle"
At(t, at) == ~crashed /\ pc[t] = at

U_ATOMIC_INCREMENT(x) == x + 1
U_ATOMIC_DECREMENT(x) == x - 1

\* The inactivity detector before it is initialised: no counter to watch
\* (p), no watchdog task (task), no initialisation going on (init), no
\* sample taken (prev), nothing reported.  The other fields are history:
\* polls made, reports emitted, changes of the counter since the last poll
\* (moves), the check periods in a row over which the counter did not
\* change (run) and the reports emitted in them (runReports).
NoWatchdog ==
    [p |-> NULL, task |-> NULL, init |-> NULL, counter |-> 0, prev |-> <<>>,
     polls |-> 0, reports |-> 0, moves |-> 0, run |-> 0, runReports |-> 0]

\* The module after power-on: no chip-to-chip session (open, with the
\* keys it was opened with in keys), AT traffic in the clear (encrypted),
\* not sealed.  boots counts the times the module was power-cycled.
NoSession ==
    [open |-> FALSE, keys |-> NULL, encrypted |-> FALSE, sealed |-> FALSE,
     boots |-> 0]

\* The mutex debug layer has no call of task t to pass on.  An entry says
\* who waits on what: the operation (op) and its arguments, as in Call.
NoCallSite == [op |-> "none", p |-> NULL, h |-> NULL, a |-> 0]

\* The state after boot, before any call; every run starts from it, with
\* its own tick period and with or without the record of calls.
Boot ==
    /\ now = 0
    /\ gResourceAllocCount = 0
    /\ kObj = [h \in Handles |-> FreeObj]
    /\ pc = [t \in Tasks |-> IF t = MainTask THEN "idle" ELSE "dead"]
    /\ cur = [t \in Tasks |-> NoCall]
    /\ last = NoCall
    /\ crashed = FALSE
    /\ kCreated = 0 /\ kDestroyed = 0
    /\ nCreateOk = 0 /\ nDestroyOk = 0 /\ nSelfDel = 0
    /\ log = [h \in Handles |-> <<>>]
    /\ wd = NoWatchdog
    /\ sec = NoSession
    /\ mtx = [t \in Tasks |-> NoCallSite]

Init ==
    /\ cfg = [tickMs |-> portTICK_PERIOD_MS, history |-> TRUE, timed |-> FALSE]
    /\ Boot

(***************************************************************************)
(* TASKS                                                                   *)
(***************************************************************************)
\* Mutant: the lower bound of the priority range is excluded.
TaskCreateParamsOk_StrictMin(pFunction, priority, pTaskHandle) ==
    /\ pFunction # NULL
    /\ pTaskHandle # NULL
    /\ priority > U_CFG_OS_PRIORITY_MIN
    /\ priority <= U_CFG_OS_PRIORITY_MAX

\* The condition of uPortTaskCreate() under which the kernel is called.
TaskCreateParamsOk(pFunction, priority, pTaskHandle) ==
    /\ pFunction # NULL
    /\ pTaskHandle # NULL
    /\ priority >= U_CFG_OS_PRIORITY_MIN
    /\ priority <= U_CFG_OS_PRIORITY_MAX

\* errorCode of uPortTaskCreate() when xTaskCreate() did not return pdPASS:
\* it is still the value it was initialised with.
TaskCreateKernelFailCode == U_ERROR_COMMON_INVALID_PARAMETER

\* uPortTaskCreate() up to and including xTaskCreate().  A task created by
\* the kernel is ready to run at once, in the task slot s.
uPortTaskCreate(t, pFunction, priority, pTaskHandle) ==
    /\ CanCall(t)
    /\ UNCHANGED gResourceAllocCount
    /\ LET c == Call("TaskCreate", pFunction, pTaskHandle, NULL, priority, 0)
           k == [c EXCEPT !.kc = TRUE]
       IN IF TaskCreateParamsOk(pFunction, priority, pTaskHandle)
          THEN \/ /\ kCreated < MaxCreates
                  /\ \E s \in FreeTaskSlots :
                        /\ pc' = [pc EXCEPT ![t] = "TaskCreate_inc", ![s] = "idle"]
                        /\ cur' = [cur EXCEPT ![t] = [k EXCEPT !.out = s]]
                  /\ last' = NoCall
                  /\ kCreated' = kCreated + 1
                  /\ UNCHANGED <<nCreateOk, nDestroyOk, env>>
               \/ /\ Return(t, k, TaskCreateKernelFailCode)
                  /\ UNCHANGED kCreated
          ELSE /\ Return(t, c, U_ERROR_COMMON_INVALID_PARAMETER)
               /\ UNCHANGED kCreated
    /\ UNCHANGED <<kObj, crashed, kDestroyed, nSelfDel, log>>

\* uPortTaskCreate() after xTaskCreate() returned pdPASS.
uPortTaskCreate_inc(t) ==
    /\ At(t, "TaskCreate_inc")
    /\ gResourceAllocCount' = U_ATOMIC_INCREMENT(gResourceAllocCount)
    /\ Return(t, cur[t], U_ERROR_COMMON_SUCCESS)
    /\ UNCHANGED <<kObj, crashed, kCreated, kDestroyed, nSelfDel, log>>

\* Mutant: the caller's own handle is taken to mean the caller as well.
uPortTaskDelete_OwnHandle(t, taskHandle) ==
    /\ CanCall(t)
    /\ LET c == Call("TaskDelete", NULL, NULL, taskHandle, 0, 0)
       IN IF taskHandle = NULL \/ taskHandle = t
          THEN /\ kDestroyed < MaxDestroys
               /\ gResourceAllocCount' = U_ATOMIC_DECREMENT(gResourceAllocCount)
               /\ Goto(t, c, "TaskDelete_kill")
          ELSE /\ UNCHANGED gResourceAllocCount
               /\ Return(t, c, U_ERROR_COMMON_INVALID_PARAMETER)
    /\ UNCHANGED <<kObj, crashed, kCreated, kDestroyed, nSelfDel, log>>

\* uPortTaskDelete() up to the decrement: only NULL, the caller itself, is
\* accepted.
uPortTaskDelete(t, taskHandle) ==
    /\ CanCall(t)
    /\ LET c == Call("TaskDelete", NULL, NULL, taskHandle, 0, 0)
       IN IF taskHandle = NULL
          THEN /\ kDestroyed < MaxDestroys
               /\ gResourceAllocCount' = U_ATOMIC_DECREMENT(gResourceAllocCount)
               /\ Goto(t, c, "TaskDelete_kill")
          ELSE /\ UNCHANGED gResourceAllocCount
               /\ Return(t, c, U_ERROR_COMMON_INVALID_PARAMETER)
    /\ UNCHANGED <<kObj, crashed, kCreated, kDestroyed, nSelfDel, log>>

\* Mutant: vTaskDelete(NULL) comes back, and uPortTaskDelete() returns
\* success to a caller that lives on.
uPortTaskDelete_kill_Returns(t) ==
    /\ At(t, "TaskDelete_kill")
    /\ UNCHANGED gResourceAllocCount
    /\ Return(t, cur[t], U_ERROR_COMMON_SUCCESS)
    /\ kDestroyed' = kDestroyed + 1
    /\ nSelfDel' = nSelfDel + 1
    /\ UNCHANGED <<kObj, crashed, kCreated, log>>

\* vTaskDelete(NULL): the kernel deletes the calling task, which never runs
\* again; the assignment of success after it is never executed.
uPortTaskDelete_kill(t) ==
    /\ At(t, "TaskDelete_kill")
    /\ pc' = [pc EXCEPT ![t] = "dead"]
    /\ cur' = [cur EXCEPT ![t] = NoCall]
    /\ last' = NoCall
    /\ kDestroyed' = kDestroyed + 1
    /\ nSelfDel' = nSelfDel + 1
    /\ UNCHANGED <<gResourceAllocCount, kObj, crashed, kCreated,
                   nCreateOk, nDestroyOk, log, env>>

(***************************************************************************)
(* The kernel's allocation and release of queue-like objects.              *)
(***************************************************************************)
\* xQueueCreate / xSemaphoreCreateMutex / xSemaphoreCreateCounting / 
\* xTimerCreate succeed at a free address h, holding obj.
KernelAlloc(h, obj) ==
    /\ kCreated < MaxCreates
    /\ h \in FreeHandles
    /\ kObj' = [kObj EXCEPT ![h] = obj]
    /\ log' = [log EXCEPT ![h] = <<>>]
    /\ kCreated' = kCreated + 1

\* vQueueDelete / vSemaphoreDelete of the address h.  A live queue, mutex or
\* semaphore is freed.  Anything else is a dangling or foreign pointer:
\* the kernel either comes back having freed nothing the model tracks, or
\* the system dies.
KernelDelete(h, died) ==
    /\ kDestroyed < MaxDestroys
    /\ IF Live(h) /\ kObj[h].kind \in QueueFamily
       THEN /\ ~died
            /\ kObj' = [kObj EXCEPT ![h] = FreeObj]
            /\ UNCHANGED crashed
       ELSE /\ crashed' = died
            /\ UNCHANGED kObj
    /\ kDestroyed' = IF died THEN kDestroyed ELSE kDestroyed + 1

\* The common shape of uPortQueueCreate(), uPortMutexCreate() and
\* uPortSemaphoreCreate() once the parameters are accepted: the kernel
\* either returns NULL (platform error) or a handle.
CreateCall(t, c, obj, at) ==
    LET k == [c EXCEPT !.kc = TRUE]
    IN \/ \E h \in Handles :
             /\ KernelAlloc(h, obj)
             /\ Goto(t, [k EXCEPT !.out = h], at)
       \/ /\ Return(t, k, U_ERROR_COMMON_PLATFORM)
          /\ UNCHANGED <<kObj, log, kCreated>>

\* Mutant: the counter is incremented twice.
CreateInc_Twice(t, at) ==
    /\ At(t, at)
    /\ gResourceAllocCount' =
           U_ATOMIC_INCREMENT(U_ATOMIC_INCREMENT(gResourceAllocCount))
    /\ Return(t, cur[t], U_ERROR_COMMON_SUCCESS)
    /\ UNCHANGED <<kObj, crashed, kCreated, kDestroyed, nSelfDel, log>>

\* The increment and return of success that end every create.
CreateInc(t, at) ==
    /\ At(t, at)
    /\ gResourceAllocCount' = U_ATOMIC_INCREMENT(gResourceAllocCount)
    /\ Return(t, cur[t], U_ERROR_COMMON_SUCCESS)
    /\ UNCHANGED <<kObj, crashed, kCreated, kDestroyed, nSelfDel, log>>

\* The common shape of uPortQueueDelete(), uPortMutexDelete() and
\* uPortSemaphoreDelete(): only NULL is rejected.
DeleteCall(t, c, at) ==
    IF c.h # NULL
    THEN /\ \E died \in BOOLEAN : KernelDelete(c.h, died)
         /\ Goto(t, [c EXCEPT !.kc = TRUE], IF crashed' THEN "crashed" ELSE at)
    ELSE /\ Return(t, c, U_ERROR_COMMON_INVALID_PARAMETER)
         /\ UNCHANGED <<kObj, crashed, kDestroyed>>

\* Mutant: success is returned without the decrement.
DeleteDec_NoDecrement(t, at) ==
    /\ At(t, at)
    /\ UNCHANGED gResourceAllocCount
    /\ Return(t, cur[t], U_ERROR_COMMON_SUCCESS)
    /\ UNCHANGED <<kObj, crashed, kCreated, kDestroyed, nSelfDel, log>>

\* The decrement and return of success that end every delete.
DeleteDec(t, at) ==
    /\ At(t, at)
    /\ gResourceAllocCount' = U_ATOMIC_DECREMENT(gResourceAllocCount)
    /\ Return(t, cur[t], U_ERROR_COMMON_SUCCESS)
    /\ UNCHANGED <<kObj, crashed, kCreated, kDestroyed, nSelfDel, log>>

(***************************************************************************)
(* QUEUES: create and delete                                               *)
(***************************************************************************)
uPortQueueCreate(t, queueLength, pQueueHandle) ==
    /\ CanCall(t)
    /\ UNCHANGED gResourceAllocCount
    /\ LET c == Call("QueueCreate", NULL, pQueueHandle, NULL, queueLength, 0)
       IN IF pQueueHandle # NULL
          THEN CreateCall(t, c, QueueObj(queueLength), "QueueCreate_inc")
          ELSE /\ Return(t, c, U_ERROR_COMMON_INVALID_PARAMETER)
               /\ UNCHANGED <<kObj, log, kCreated>>
    /\ UNCHANGED <<crashed, kDestroyed, nSelfDel>>

uPortQueueCreate_inc(t) == CreateInc(t, "QueueCreate_inc")

uPortQueueDelete(t, queueHandle) ==
    /\ CanCall(t)
    /\ UNCHANGED gResourceAllocCount
    /\ DeleteCall(t, Call("QueueDelete", NULL, NULL, queueHandle, 0, 0),
                  "QueueDelete_dec")
    /\ UNCHANGED <<kCreated, nSelfDel, log>>

uPortQueueDelete_dec(t) == DeleteDec(t, "QueueDelete_dec")

(***************************************************************************)
(* MUTEXES: create and delete                                              *)
(***************************************************************************)
uPortMutexCreate(t, pMutexHandle) ==
    /\ CanCall(t)
    /\ UNCHANGED gResourceAllocCount
    /\ LET c == Call("MutexCreate", NULL, pMutexHandle, NULL, 0, 0)
       IN IF pMutexHandle # NULL
          THEN CreateCall(t, c, MutexObj, "MutexCreate_inc")
          ELSE /\ Return(t, c, U_ERROR_COMMON_INVALID_PARAMETER)
               /\ UNCHANGED <<kObj, log, kCreated>>
    /\ UNCHANGED <<crashed, kDestroyed, nSelfDel>>

uPortMutexCreate_inc(t) == CreateInc(t, "MutexCreate_inc")

uPortMutexDelete(t, mutexHandle) ==
    /\ CanCall(t)
    /\ UNCHANGED gResourceAllocCount
    /\ DeleteCall(t, Call("MutexDelete", NULL, NULL, mutexHandle, 0, 0),
                  "MutexDelete_dec")
    /\ UNCHANGED <<kCreated, nSelfDel, log>>

uPortMutexDelete_dec(t) == DeleteDec(t, "MutexDelete_dec")

\* Mutant: the limit is not tested against zero.
SemaphoreCreateParamsOk_NoLimitTest(pSemaphoreHandle, initialCount, limit) ==
    (pSemaphoreHandle # NULL) /\ (initialCount <= limit)

(***************************************************************************)
(* SEMAPHORES: create and delete                                           *)
(***************************************************************************)
\* The condition of uPortSemaphoreCreate() under which the kernel is called.
SemaphoreCreateParamsOk(pSemaphoreHandle, initialCount, limit) ==
    /\ pSemaphoreHandle # NULL
    /\ limit # 0
    /\ initialCount <= limit

uPortSemaphoreCreate(t, pSemaphoreHandle, initialCount, limit) ==
    /\ CanCall(t)
    /\ UNCHANGED gResourceAllocCount
    /\ LET c == Call("SemaphoreCreate", NULL, pSemaphoreHandle, NULL,
                     initialCount, limit)
       IN IF SemaphoreCreateParamsOk(pSemaphoreHandle, initialCount, limit)
          THEN CreateCall(t, c, SemObj(limit, initialCount),
                          "SemaphoreCreate_inc")
          ELSE /\ Return(t, c, U_ERROR_COMMON_INVALID_PARAMETER)
               /\ UNCHANGED <<kObj, log, kCreated>>
    /\ UNCHANGED <<crashed, kDestroyed, nSelfDel>>

uPortSemaphoreCreate_inc(t) == CreateInc(t, "SemaphoreCreate_inc")

uPortSemaphoreDelete(t, semaphoreHandle) ==
    /\ CanCall(t)
    /\ UNCHANGED gResourceAllocCount
    /\ DeleteCall(t, Call("SemaphoreDelete", NULL, NULL, semaphoreHandle, 0, 0),
                  "SemaphoreDelete_dec")
    /\ UNCHANGED <<kCreated, nSelfDel, log>>

uPortSemaphoreDelete_dec(t) == DeleteDec(t, "SemaphoreDelete_dec")

(***************************************************************************)
(* SEMAPHORES: try-take and give                                           *)
(***************************************************************************)
\* A call on the object at h has completed: it goes on the object's record,
\* with the item it sent or the item it got.
Logged(h, c, r) ==
    log' = IF cfg.history
           THEN [log EXCEPT ![h] =
                    Append(@, [op |-> c.op, w |-> c.b, ret |-> r,
                               item |-> IF c.op \in {"QueueSend", "QueueSendIrq"}
                                        THEN c.p ELSE c.out])]
           ELSE log

\* The calls recorded so far, over all objects.
TotalLogged == LET RECURSIVE Sum(_)
                   Sum(S) == IF S = {} THEN 0
                             ELSE LET h == CHOOSE x \in S : TRUE
                                  IN Len(log[h]) + Sum(S \ {h})
               IN Sum(Handles)

\* What a kernel call on a handle that is no object of its kind can do:
\* report success or failure, which the caller turns into one of results,
\* or bring the system down.
KernelCallOnGarbage(t, c, results) ==
    /\ \/ /\ \E r \in results :
                Return(t, [c EXCEPT !.kfail = (r # U_ERROR_COMMON_SUCCESS)], r)
          /\ UNCHANGED crashed
       \/ /\ Goto(t, c, "crashed")
          /\ crashed' = TRUE
    /\ UNCHANGED <<kObj, log>>

\* A call that goes on record can start: the record has room for it.
CanLog == cfg.history => TotalLogged < MaxLog

\* The handles xSemaphoreTake / xSemaphoreGive are defined on.
IsSemaphore(h) == Live(h) /\ kObj[h].kind \in {"sem", "mutex"}

\* The task t takes a token of the semaphore, or the mutex, at h.
TakeToken(t, h) ==
    kObj' = [kObj EXCEPT ![h].count = @ - 1,
                         ![h].holder = IF kObj[h].kind = "mutex" THEN t ELSE @]

\* A wait of c.b ticks that began at c.t0 is over: the kernel wakes the
\* task at the c.b-th tick interrupt after the call.  Where the run does
\* not follow the time (cfg.timed is FALSE) a bounded wait can end at any
\* moment; a wait of portMAX_DELAY never ends.
WaitIsOver(c) ==
    /\ c.b # portMAX_DELAY
    /\ cfg.timed => now >= ((c.t0 \div cfg.tickMs) + c.b) * cfg.tickMs

\* xSemaphoreTake(c.h, c.b) with c.b the wait in ticks.  A token is taken
\* at once if there is one; without one the call fails at once when the
\* wait is zero and blocks at position at otherwise.  On a handle that is
\* no semaphore the kernel reads memory it does not own: any result, or
\* the system dies.
xSemaphoreTake(t, c, failCode, at) ==
    IF IsSemaphore(c.h)
    THEN /\ UNCHANGED crashed
         /\ IF kObj[c.h].count > 0
            THEN /\ TakeToken(t, c.h)
                 /\ Return(t, c, U_ERROR_COMMON_SUCCESS)
                 /\ Logged(c.h, c, U_ERROR_COMMON_SUCCESS)
            ELSE IF c.b = 0
            THEN /\ Return(t, [c EXCEPT !.kfail = TRUE], failCode)
                 /\ Logged(c.h, c, failCode)
                 /\ UNCHANGED kObj
            ELSE /\ Goto(t, c, at)
                 /\ UNCHANGED <<kObj, log>>
    ELSE KernelCallOnGarbage(t, c, {U_ERROR_COMMON_SUCCESS, failCode})

\* A task blocked in xSemaphoreTake() gets a token.
xSemaphoreTake_wake(t, at) ==
    /\ At(t, at)
    /\ IsSemaphore(cur[t].h)
    /\ kObj[cur[t].h].count > 0
    /\ UNCHANGED gResourceAllocCount
    /\ TakeToken(t, cur[t].h)
    /\ Return(t, cur[t], U_ERROR_COMMON_SUCCESS)
    /\ Logged(cur[t].h, cur[t], U_ERROR_COMMON_SUCCESS)
    /\ UNCHANGED <<crashed, kCreated, kDestroyed, nSelfDel>>

\* The wait of a task blocked in xSemaphoreTake() runs out.
xSemaphoreTake_timeout(t, failCode, at) ==
    /\ At(t, at)
    /\ WaitIsOver(cur[t])
    /\ UNCHANGED gResourceAllocCount
    /\ Return(t, [cur[t] EXCEPT !.kfail = TRUE], failCode)
    /\ IF Live(cur[t].h) THEN Logged(cur[t].h, cur[t], failCode)
                         ELSE UNCHANGED log
    /\ UNCHANGED <<kObj, crashed, kCreated, kDestroyed, nSelfDel>>

\* errorCode of uPortSemaphoreTryTake() when xSemaphoreTake() did not
\* return pdTRUE.
TryTakeFailCode == U_ERROR_COMMON_TIMEOUT

\* uPortSemaphoreTryTake(): the wait is converted to ticks by integer
\* division.
uPortSemaphoreTryTake(t, semaphoreHandle, delayMs) ==
    /\ CanCall(t)
    /\ CanLog
    /\ UNCHANGED gResourceAllocCount
    /\ LET c == Call("SemaphoreTryTake", NULL, NULL, semaphoreHandle, delayMs,
                     delayMs \div cfg.tickMs)
       IN IF semaphoreHandle # NULL
          THEN xSemaphoreTake(t, [c EXCEPT !.kc = TRUE], TryTakeFailCode,
                              "SemaphoreTryTake_wait")
          ELSE /\ Return(t, c, U_ERROR_COMMON_INVALID_PARAMETER)
               /\ UNCHANGED <<kObj, crashed, log>>
    /\ UNCHANGED <<kCreated, kDestroyed, nSelfDel>>

uPortSemaphoreTryTake_timeout(t) ==
    xSemaphoreTake_timeout(t, TryTakeFailCode, "SemaphoreTryTake_wait")

\* A token goes back to the semaphore, or the mutex, at h.
GiveToken(h) ==
    kObj' = [kObj EXCEPT ![h].count = @ + 1, ![h].holder = NULL]

\* Mutant: a give to a semaphore that holds its limit adds a token.
xSemaphoreGive_NoLimit(t, h, ok, died) ==
    IF IsSemaphore(h)
    THEN /\ ok
         /\ died => (kObj[h].kind = "mutex" /\ kObj[h].holder # t)
         /\ crashed' = died
         /\ IF died THEN UNCHANGED kObj ELSE GiveToken(h)
    ELSE /\ died => ~ok
         /\ crashed' = died
         /\ UNCHANGED kObj

\* xSemaphoreGive(h) called by the task t; ok is what it returns and died
\* whether the system dies in it.  A token is added and pdTRUE returned
\* unless the count is at its limit, where nothing changes and pdFALSE is
\* returned.  A mutex held by another task is released all the same, or
\* the kernel's assertion on the holder stops the system, as the build has
\* it.  On a handle that is no semaphore anything can come back.
xSemaphoreGive(t, h, ok, died) ==
    IF IsSemaphore(h)
    THEN IF kObj[h].count < kObj[h].cap
         THEN /\ ok
              /\ died => (kObj[h].kind = "mutex" /\ kObj[h].holder # t)
              /\ crashed' = died
              /\ IF died THEN UNCHANGED kObj ELSE GiveToken(h)
         ELSE /\ ~ok /\ ~died
              /\ UNCHANGED <<kObj, crashed>>
    ELSE /\ died => ~ok
         /\ crashed' = died
         /\ UNCHANGED kObj

\* Mutant: the kernel is not called.
uPortSemaphoreGive_NoKernelCall(t, semaphoreHandle) ==
    /\ CanCall(t)
    /\ CanLog
    /\ UNCHANGED gResourceAllocCount
    /\ LET c == Call("SemaphoreGive", NULL, NULL, semaphoreHandle, 0, 0)
       IN IF semaphoreHandle # NULL
          THEN /\ UNCHANGED <<kObj, crashed>>
               /\ Return(t, c, U_ERROR_COMMON_SUCCESS)
               /\ IF Live(semaphoreHandle)
                  THEN Logged(semaphoreHandle, c, U_ERROR_COMMON_SUCCESS)
                  ELSE UNCHANGED log
          ELSE /\ Return(t, c, U_ERROR_COMMON_INVALID_PARAMETER)
               /\ UNCHANGED <<kObj, crashed, log>>
    /\ UNCHANGED <<kCreated, kDestroyed, nSelfDel>>

\* uPortSemaphoreGive(): success whatever xSemaphoreGive() returned.
uPortSemaphoreGive(t, semaphoreHandle) ==
    /\ CanCall(t)
    /\ CanLog
    /\ UNCHANGED gResourceAllocCount
    /\ LET c == Call("SemaphoreGive", NULL, NULL, semaphoreHandle, 0, 0)
       IN IF semaphoreHandle # NULL
          THEN \E ok, died \in BOOLEAN :
               /\ xSemaphoreGive(t, semaphoreHandle, ok, died)
               /\ IF died
                  THEN /\ Goto(t, [c EXCEPT !.kc = TRUE], "crashed")
                       /\ UNCHANGED log
                  ELSE /\ Return(t, [c EXCEPT !.kc = TRUE, !.kfail = ~ok],
                                 U_ERROR_COMMON_SUCCESS)
                       /\ IF Live(semaphoreHandle)
                          THEN Logged(semaphoreHandle, c, U_ERROR_COMMON_SUCCESS)
                          ELSE UNCHANGED log
          ELSE /\ Return(t, c, U_ERROR_COMMON_INVALID_PARAMETER)
               /\ UNCHANGED <<kObj, crashed, log>>
    /\ UNCHANGED <<kCreated, kDestroyed, nSelfDel>>

\* uPortSemaphoreTake(): waits for ever; a failure of the kernel call is
\* a platform error.
uPortSemaphoreTake(t, semaphoreHandle) ==
    /\ CanCall(t)
    /\ CanLog
    /\ UNCHANGED gResourceAllocCount
    /\ LET c == Call("SemaphoreTake", NULL, NULL, semaphoreHandle, 0,
                     portMAX_DELAY)
       IN IF semaphoreHandle # NULL
          THEN xSemaphoreTake(t, [c EXCEPT !.kc = TRUE],
                              U_ERROR_COMMON_PLATFORM, "SemaphoreTake_wait")
          ELSE /\ Return(t, c, U_ERROR_COMMON_INVALID_PARAMETER)
               /\ UNCHANGED <<kObj, crashed, log>>
    /\ UNCHANGED <<kCreated, kDestroyed, nSelfDel>>

uPortSemaphoreTake_wake(t) == xSemaphoreTake_wake(t, "SemaphoreTake_wait")
uPortSemaphoreTryTake_wake(t) == xSemaphoreTake_wake(t, "SemaphoreTryTake_wait")

\* The tasks blocked on the object at h, waiting for a token or an item.
WaitingToTake(h) ==
    {u \in Tasks : /\ pc[u] \in {"SemaphoreTake_wait", "SemaphoreTryTake_wait",
                                  "MutexLock_wait", "MutexTryLock_wait",
                                  "QueueReceive_wait", "QueueTryReceive_wait",
                                  "QueuePeek_wait"}
                   /\ cur[u].h = h}

\* xSemaphoreGiveFromISR(h, &yield): ok is what it returns, woken what it
\* leaves in yield, died whether the system dies in it.  It never waits.
\* A token is added unless the count is at its limit; the flag is set only
\* where the token readies a waiting task, and then only if that task has
\* the higher priority.
xSemaphoreGiveFromISR(h, ok, woken, died) ==
    IF IsSemaphore(h)
    THEN IF kObj[h].count < kObj[h].cap
         THEN /\ ok
              /\ woken => WaitingToTake(h) # {}
              /\ died => (kObj[h].kind = "mutex" /\ kObj[h].holder # NULL)
              /\ crashed' = died
              /\ IF died THEN UNCHANGED kObj ELSE GiveToken(h)
         ELSE /\ ~ok /\ ~woken /\ ~died
              /\ UNCHANGED <<kObj, crashed>>
    ELSE /\ died => (~ok /\ ~woken)
         /\ crashed' = died
         /\ UNCHANGED kObj

\* Mutant: taskYIELD() is called whenever the kernel was called.
ReturnFromISR_AlwaysYield(t, c, ok, woken) ==
    Return(t, [c EXCEPT !.kc = TRUE, !.kfail = ~ok, !.woken = woken,
                        !.yielded = TRUE],
           IF ok THEN U_ERROR_COMMON_SUCCESS ELSE U_ERROR_COMMON_PLATFORM)

\* What a ...FromISR wrapper does with the kernel's answer: taskYIELD() if
\* the flag is set, then success if the kernel said pdTRUE and a platform
\* error otherwise.
ReturnFromISR(t, c, ok, woken) ==
    Return(t, [c EXCEPT !.kc = TRUE, !.kfail = ~ok, !.woken = woken,
                        !.yielded = woken],
           IF ok THEN U_ERROR_COMMON_SUCCESS ELSE U_ERROR_COMMON_PLATFORM)

\* Mutant: the handle goes to the kernel without being looked at.
uPortSemaphoreGiveIrq_Unchecked(t, semaphoreHandle) ==
    /\ CanCall(t)
    /\ CanLog
    /\ UNCHANGED gResourceAllocCount
    /\ LET c == Call("SemaphoreGiveIrq", NULL, NULL, semaphoreHandle, 0, 0)
       IN \E ok, woken, died \in BOOLEAN :
             /\ xSemaphoreGiveFromISR(semaphoreHandle, ok, woken, died)
             /\ IF died
                THEN /\ Goto(t, [c EXCEPT !.kc = TRUE], "crashed")
                     /\ UNCHANGED log
                ELSE /\ ReturnFromISR(t, c, ok, woken)
                     /\ IF Live(semaphoreHandle)
                        THEN Logged(semaphoreHandle, c,
                                    IF ok THEN U_ERROR_COMMON_SUCCESS
                                          ELSE U_ERROR_COMMON_PLATFORM)
                        ELSE UNCHANGED log
    /\ UNCHANGED <<kCreated, kDestroyed, nSelfDel>>

\* uPortSemaphoreGiveIrq(), called from an interrupt that cuts in on t.
uPortSemaphoreGiveIrq(t, semaphoreHandle) ==
    /\ CanCall(t)
    /\ CanLog
    /\ UNCHANGED gResourceAllocCount
    /\ LET c == Call("SemaphoreGiveIrq", NULL, NULL, semaphoreHandle, 0, 0)
       IN IF semaphoreHandle # NULL
          THEN \E ok, woken, died \in BOOLEAN :
               /\ xSemaphoreGiveFromISR(semaphoreHandle, ok, woken, died)
               /\ IF died
                  THEN /\ Goto(t, [c EXCEPT !.kc = TRUE], "crashed")
                       /\ UNCHANGED log
                  ELSE /\ ReturnFromISR(t, c, ok, woken)
                       /\ IF Live(semaphoreHandle)
                          THEN Logged(semaphoreHandle, c,
                                      IF ok THEN U_ERROR_COMMON_SUCCESS
                                            ELSE U_ERROR_COMMON_PLATFORM)
                          ELSE UNCHANGED log
          ELSE /\ Return(t, c, U_ERROR_COMMON_INVALID_PARAMETER)
               /\ UNCHANGED <<kObj, crashed, log>>
    /\ UNCHANGED <<kCreated, kDestroyed, nSelfDel>>

(***************************************************************************)
(* MUTEXES: lock, try-lock and unlock                                      *)
(***************************************************************************)
\* Mutant: a failure of the kernel call is a timeout, as in the try-lock.
uPortMutexLock_Timeout(t, mutexHandle) ==
    /\ CanCall(t)
    /\ CanLog
    /\ UNCHANGED gResourceAllocCount
    /\ LET c == Call("MutexLock", NULL, NULL, mutexHandle, 0, portMAX_DELAY)
       IN IF mutexHandle # NULL
          THEN xSemaphoreTake(t, [c EXCEPT !.kc = TRUE],
                              U_ERROR_COMMON_TIMEOUT, "MutexLock_wait")
          ELSE /\ Return(t, c, U_ERROR_COMMON_INVALID_PARAMETER)
               /\ UNCHANGED <<kObj, crashed, log>>
    /\ UNCHANGED <<kCreated, kDestroyed, nSelfDel>>

\* uPortMutexLock(): waits for ever; a failure of the kernel call is a
\* platform error.
uPortMutexLock(t, mutexHandle) ==
    /\ CanCall(t)
    /\ CanLog
    /\ UNCHANGED gResourceAllocCount
    /\ LET c == Call("MutexLock", NULL, NULL, mutexHandle, 0, portMAX_DELAY)
       IN IF mutexHandle # NULL
          THEN xSemaphoreTake(t, [c EXCEPT !.kc = TRUE],
                              U_ERROR_COMMON_PLATFORM, "MutexLock_wait")
          ELSE /\ Return(t, c, U_ERROR_COMMON_INVALID_PARAMETER)
               /\ UNCHANGED <<kObj, crashed, log>>
    /\ UNCHANGED <<kCreated, kDestroyed, nSelfDel>>

\* Mutant: the task that waits for the mutex gets out with success while
\* the mutex is held.
uPortMutexLock_wake_Barges(t) ==
    /\ At(t, "MutexLock_wait")
    /\ IsSemaphore(cur[t].h)
    /\ UNCHANGED gResourceAllocCount
    /\ Return(t, cur[t], U_ERROR_COMMON_SUCCESS)
    /\ Logged(cur[t].h, cur[t], U_ERROR_COMMON_SUCCESS)
    /\ UNCHANGED <<kObj, crashed, kCreated, kDestroyed, nSelfDel>>

uPortMutexLock_wake(t) == xSemaphoreTake_wake(t, "MutexLock_wait")

\* uPortMutexTryLock(): waits delayMs / portTICK_PERIOD_MS ticks; a
\* failure of the kernel call is a timeout.
uPortMutexTryLock(t, mutexHandle, delayMs) ==
    /\ CanCall(t)
    /\ CanLog
    /\ UNCHANGED gResourceAllocCount
    /\ LET c == Call("MutexTryLock", NULL, NULL, mutexHandle, delayMs,
                     delayMs \div cfg.tickMs)
       IN IF mutexHandle # NULL
          THEN xSemaphoreTake(t, [c EXCEPT !.kc = TRUE],
                              U_ERROR_COMMON_TIMEOUT, "MutexTryLock_wait")
          ELSE /\ Return(t, c, U_ERROR_COMMON_INVALID_PARAMETER)
               /\ UNCHANGED <<kObj, crashed, log>>
    /\ UNCHANGED <<kCreated, kDestroyed, nSelfDel>>

uPortMutexTryLock_wake(t) == xSemaphoreTake_wake(t, "MutexTryLock_wait")
uPortMutexTryLock_timeout(t) ==
    xSemaphoreTake_timeout(t, U_ERROR_COMMON_TIMEOUT, "MutexTryLock_wait")

\* Mutant: uPortMutexUnlock() reports what xSemaphoreGive() returned.
uPortMutexUnlock_Checked(t, mutexHandle) ==
    /\ CanCall(t)
    /\ CanLog
    /\ UNCHANGED gResourceAllocCount
    /\ LET c == Call("MutexUnlock", NULL, NULL, mutexHandle, 0, 0)
       IN IF mutexHandle # NULL
          THEN \E ok, died \in BOOLEAN :
               /\ xSemaphoreGive(t, mutexHandle, ok, died)
               /\ IF died
                  THEN /\ Goto(t, [c EXCEPT !.kc = TRUE], "crashed")
                       /\ UNCHANGED log
                  ELSE /\ Return(t, [c EXCEPT !.kc = TRUE, !.kfail = ~ok],
                                 IF ok THEN U_ERROR_COMMON_SUCCESS
                                       ELSE U_ERROR_COMMON_PLATFORM)
                       /\ IF Live(mutexHandle)
                          THEN Logged(mutexHandle, c, U_ERROR_COMMON_SUCCESS)
                          ELSE UNCHANGED log
          ELSE /\ Return(t, c, U_ERROR_COMMON_INVALID_PARAMETER)
               /\ UNCHANGED <<kObj, crashed, log>>
    /\ UNCHANGED <<kCreated, kDestroyed, nSelfDel>>

\* uPortMutexUnlock(): xSemaphoreGive() is called and its result dropped.
uPortMutexUnlock(t, mutexHandle) ==
    /\ CanCall(t)
    /\ CanLog
    /\ UNCHANGED gResourceAllocCount
    /\ LET c == Call("MutexUnlock", NULL, NULL, mutexHandle, 0, 0)
       IN IF mutexHandle # NULL
          THEN \E ok, died \in BOOLEAN :
               /\ xSemaphoreGive(t, mutexHandle, ok, died)
               /\ IF died
                  THEN /\ Goto(t, [c EXCEPT !.kc = TRUE], "crashed")
                       /\ UNCHANGED log
                  ELSE /\ Return(t, [c EXCEPT !.kc = TRUE, !.kfail = ~ok],
                                 U_ERROR_COMMON_SUCCESS)
                       /\ IF Live(mutexHandle)
                          THEN Logged(mutexHandle, c, U_ERROR_COMMON_SUCCESS)
                          ELSE UNCHANGED log
          ELSE /\ Return(t, c, U_ERROR_COMMON_INVALID_PARAMETER)
               /\ UNCHANGED <<kObj, crashed, log>>
    /\ UNCHANGED <<kCreated, kDestroyed, nSelfDel>>

(***************************************************************************)
(* QUEUES: send, receive and free slots                                    *)
(***************************************************************************)
\* The handles xQueueSend / xQueueReceive are defined on.
IsQueue(h) == Live(h) /\ kObj[h].kind = "queue"

\* The item pEventData points at goes to the back of the queue.
\* Mutant: the item is put at the head of the queue.
Enqueue_AtHead(h, pEventData) ==
    kObj' = [kObj EXCEPT ![h].items = <<pEventData>> \o @,
                         ![h].count = @ + 1]

Enqueue(h, pEventData) ==
    kObj' = [kObj EXCEPT ![h].items = Append(@, pEventData),
                         ![h].count = @ + 1]

\* The item at the front of the queue is taken out.
Dequeue(h) ==
    kObj' = [kObj EXCEPT ![h].items = Tail(@), ![h].count = @ - 1]

\* xQueueSend(c.h, c.p, portMAX_DELAY): the item is copied in if there is
\* room, otherwise the caller blocks at position at, with no timeout; b
\* of the call's record notes that it blocked.
xQueueSend(t, c, at) ==
    IF IsQueue(c.h)
    THEN /\ UNCHANGED crashed
         /\ IF kObj[c.h].count < kObj[c.h].cap
            THEN /\ Enqueue(c.h, c.p)
                 /\ Return(t, c, U_ERROR_COMMON_SUCCESS)
                 /\ Logged(c.h, c, U_ERROR_COMMON_SUCCESS)
            ELSE /\ Goto(t, [c EXCEPT !.b = 1], at)
                 /\ UNCHANGED <<kObj, log>>
    ELSE KernelCallOnGarbage(t, c, {U_ERROR_COMMON_SUCCESS,
                                    U_ERROR_COMMON_PLATFORM})

\* Mutant: xQueueSend() is called with no wait and fails on a full queue.
uPortQueueSend_NoWait(t, queueHandle, pEventData) ==
    /\ CanCall(t)
    /\ CanLog
    /\ UNCHANGED gResourceAllocCount
    /\ LET c == Call("QueueSend", NULL, pEventData, queueHandle, 0, 0)
       IN IF queueHandle # NULL /\ pEventData # NULL /\ IsQueue(queueHandle)
          THEN /\ IF kObj[queueHandle].count < kObj[queueHandle].cap
                  THEN /\ Enqueue(queueHandle, pEventData)
                       /\ Return(t, c, U_ERROR_COMMON_SUCCESS)
                       /\ Logged(queueHandle, c, U_ERROR_COMMON_SUCCESS)
                  ELSE /\ Return(t, c, U_ERROR_COMMON_PLATFORM)
                       /\ Logged(queueHandle, c, U_ERROR_COMMON_PLATFORM)
                       /\ UNCHANGED kObj
               /\ UNCHANGED crashed
          ELSE /\ Return(t, c, U_ERROR_COMMON_INVALID_PARAMETER)
               /\ UNCHANGED <<kObj, crashed, log>>
    /\ UNCHANGED <<kCreated, kDestroyed, nSelfDel>>

\* uPortQueueSend(), built without U_CFG_QUEUE_DEBUG.
uPortQueueSend(t, queueHandle, pEventData) ==
    /\ CanCall(t)
    /\ CanLog
    /\ UNCHANGED gResourceAllocCount
    /\ LET c == Call("QueueSend", NULL, pEventData, queueHandle, 0, 0)
       IN IF queueHandle # NULL /\ pEventData # NULL
          THEN xQueueSend(t, [c EXCEPT !.kc = TRUE], "QueueSend_wait")
          ELSE /\ Return(t, c, U_ERROR_COMMON_INVALID_PARAMETER)
               /\ UNCHANGED <<kObj, crashed, log>>
    /\ UNCHANGED <<kCreated, kDestroyed, nSelfDel>>

\* A task blocked in xQueueSend() finds room: its item goes in and
\* uPortQueueSend() returns success.
uPortQueueSend_wake(t) ==
    /\ At(t, "QueueSend_wait")
    /\ IsQueue(cur[t].h)
    /\ kObj[cur[t].h].count < kObj[cur[t].h].cap
    /\ UNCHANGED gResourceAllocCount
    /\ Enqueue(cur[t].h, cur[t].p)
    /\ Return(t, cur[t], U_ERROR_COMMON_SUCCESS)
    /\ Logged(cur[t].h, cur[t], U_ERROR_COMMON_SUCCESS)
    /\ UNCHANGED <<crashed, kCreated, kDestroyed, nSelfDel>>

\* xQueueReceive(c.h, c.p, ticks): the front item is copied out if there
\* is one; without one the call fails at once when the wait is zero and
\* blocks at position at otherwise, b of the call's record keeping the
\* wait.
xQueueReceive(t, c, ticks, failCode, at) ==
    IF IsQueue(c.h)
    THEN /\ UNCHANGED crashed
         /\ IF kObj[c.h].count > 0
            THEN /\ Dequeue(c.h)
                 /\ Return(t, [c EXCEPT !.out = Head(kObj[c.h].items)],
                           U_ERROR_COMMON_SUCCESS)
                 /\ Logged(c.h, [c EXCEPT !.out = Head(kObj[c.h].items)],
                           U_ERROR_COMMON_SUCCESS)
            ELSE IF ticks = 0
            THEN /\ Return(t, [c EXCEPT !.kfail = TRUE], failCode)
                 /\ Logged(c.h, c, failCode)
                 /\ UNCHANGED kObj
            ELSE /\ Goto(t, [c EXCEPT !.b = ticks], at)
                 /\ UNCHANGED <<kObj, log>>
    ELSE KernelCallOnGarbage(t, c, {U_ERROR_COMMON_SUCCESS, failCode})

\* A task blocked in xQueueReceive() finds an item.
xQueueReceive_wake(t, at) ==
    /\ At(t, at)
    /\ IsQueue(cur[t].h)
    /\ kObj[cur[t].h].count > 0
    /\ UNCHANGED gResourceAllocCount
    /\ Dequeue(cur[t].h)
    /\ Return(t, [cur[t] EXCEPT !.out = Head(kObj[cur[t].h].items)],
              U_ERROR_COMMON_SUCCESS)
    /\ Logged(cur[t].h, [cur[t] EXCEPT !.out = Head(kObj[cur[t].h].items)],
              U_ERROR_COMMON_SUCCESS)
    /\ UNCHANGED <<crashed, kCreated, kDestroyed, nSelfDel>>

\* The wait of a task blocked in xQueueReceive() or xQueuePeek() runs out.
xQueueReceive_timeout(t, failCode, at) ==
    /\ At(t, at)
    /\ WaitIsOver(cur[t])
    /\ UNCHANGED gResourceAllocCount
    /\ Return(t, [cur[t] EXCEPT !.kfail = TRUE], failCode)
    /\ IF Live(cur[t].h) THEN Logged(cur[t].h, cur[t], failCode)
                         ELSE UNCHANGED log
    /\ UNCHANGED <<kObj, crashed, kCreated, kDestroyed, nSelfDel>>

\* uPortQueueReceive().
uPortQueueReceive(t, queueHandle, pEventData) ==
    /\ CanCall(t)
    /\ CanLog
    /\ UNCHANGED gResourceAllocCount
    /\ LET c == Call("QueueReceive", NULL, pEventData, queueHandle, 0, 0)
       IN IF queueHandle # NULL /\ pEventData # NULL
          THEN xQueueReceive(t, [c EXCEPT !.kc = TRUE], portMAX_DELAY,
                             U_ERROR_COMMON_PLATFORM, "QueueReceive_wait")
          ELSE /\ Return(t, c, U_ERROR_COMMON_INVALID_PARAMETER)
               /\ UNCHANGED <<kObj, crashed, log>>
    /\ UNCHANGED <<kCreated, kDestroyed, nSelfDel>>

\* Mutant: the wait gives up on a queue that is still empty.
uPortQueueReceive_wake_GivesUp(t) ==
    \/ xQueueReceive_wake(t, "QueueReceive_wait")
    \/ /\ At(t, "QueueReceive_wait")
       /\ IsQueue(cur[t].h) /\ kObj[cur[t].h].count = 0
       /\ UNCHANGED gResourceAllocCount
       /\ Return(t, [cur[t] EXCEPT !.kfail = TRUE], U_ERROR_COMMON_PLATFORM)
       /\ UNCHANGED <<kObj, log, crashed, kCreated, kDestroyed, nSelfDel>>

uPortQueueReceive_wake(t) == xQueueReceive_wake(t, "QueueReceive_wait")

(***************************************************************************)
(* uPortQueueSend() built with U_CFG_QUEUE_DEBUG: xQueueSend() is called   *)
(* with no wait, again and again until it returns pdTRUE, and after each   *)
(* failure the task is in uPortTaskBlock(U_CFG_OS_YIELD_MS).  The number   *)
(* of failures so far (x in the code, which paces the log line) is kept    *)
(* in b, the time asked of uPortTaskBlock() in a and the number of times   *)
(* uPortLog() has printed "queue ... is full, retrying..." in notices.     *)
(***************************************************************************)
\* Mutant: the line is printed at every failed attempt.
NoticePeriod_One(yieldMs) == 1

\* 1000 / U_CFG_OS_YIELD_MS as C divides integers (towards zero; yieldMs is
\* not 0): the line is printed when x is a multiple of it.
NoticePeriod(yieldMs) ==
    IF yieldMs > 0 THEN 1000 \div yieldMs ELSE -(1000 \div (-yieldMs))

\* One xQueueSend(queueHandle, pEventData, 0) and what the loop does with
\* its result.  On a handle that is no queue the kernel call may report
\* either result or stop the system.
xQueueSend_attempt(t, c) ==
    LET again == [c EXCEPT !.b = @ + 1, !.a = U_CFG_OS_YIELD_MS,
                           !.kfail = TRUE,
                           !.notices =
                               IF c.b % NoticePeriod(U_CFG_OS_YIELD_MS) = 0
                               THEN @ + 1 ELSE @]
    IN IF IsQueue(c.h)
       THEN /\ UNCHANGED crashed
            /\ IF kObj[c.h].count < kObj[c.h].cap
               THEN /\ Enqueue(c.h, c.p)
                    /\ Return(t, c, U_ERROR_COMMON_SUCCESS)
                    /\ Logged(c.h, c, U_ERROR_COMMON_SUCCESS)
               ELSE /\ c.b < MaxRetries
                    /\ Goto(t, again, "QueueSend_block")
                    /\ UNCHANGED <<kObj, log>>
       ELSE \/ KernelCallOnGarbage(t, c, {U_ERROR_COMMON_SUCCESS})
            \/ /\ c.b < MaxRetries
               /\ Goto(t, again, "QueueSend_block")
               /\ UNCHANGED <<kObj, log, crashed>>

uPortQueueSend_debug(t, queueHandle, pEventData) ==
    /\ CanCall(t)
    /\ CanLog
    /\ UNCHANGED gResourceAllocCount
    /\ LET c == Call("QueueSend", NULL, pEventData, queueHandle, 0, 0)
       IN IF queueHandle # NULL /\ pEventData # NULL
          THEN xQueueSend_attempt(t, [c EXCEPT !.kc = TRUE])
          ELSE /\ Return(t, c, U_ERROR_COMMON_INVALID_PARAMETER)
               /\ UNCHANGED <<kObj, crashed, log>>
    /\ UNCHANGED <<kCreated, kDestroyed, nSelfDel>>

\* Mutant: the loop gives up after a failed attempt.
uPortQueueSend_retry_GivesUp(t) ==
    /\ At(t, "QueueSend_block")
    /\ UNCHANGED gResourceAllocCount
    /\ IF IsQueue(cur[t].h) /\ kObj[cur[t].h].count < kObj[cur[t].h].cap
       THEN xQueueSend_attempt(t, cur[t])
       ELSE /\ Return(t, cur[t], U_ERROR_COMMON_PLATFORM)
            /\ UNCHANGED <<kObj, log, crashed>>
    /\ UNCHANGED <<kCreated, kDestroyed, nSelfDel>>

\* uPortTaskBlock() is over: the next turn of the loop.
uPortQueueSend_retry(t) ==
    /\ At(t, "QueueSend_block")
    /\ UNCHANGED gResourceAllocCount
    /\ xQueueSend_attempt(t, cur[t])
    /\ UNCHANGED <<kCreated, kDestroyed, nSelfDel>>

\* Mutant: a failure of the kernel call is a platform error.
uPortQueueTryReceive_Platform(t, queueHandle, waitMs, pEventData) ==
    /\ CanCall(t)
    /\ CanLog
    /\ UNCHANGED gResourceAllocCount
    /\ LET ticks == waitMs \div cfg.tickMs
           c == Call("QueueTryReceive", NULL, pEventData, queueHandle, waitMs,
                     ticks)
       IN IF queueHandle # NULL /\ pEventData # NULL
          THEN xQueueReceive(t, [c EXCEPT !.kc = TRUE], ticks,
                             U_ERROR_COMMON_PLATFORM, "QueueTryReceive_wait")
          ELSE /\ Return(t, c, U_ERROR_COMMON_INVALID_PARAMETER)
               /\ UNCHANGED <<kObj, crashed, log>>
    /\ UNCHANGED <<kCreated, kDestroyed, nSelfDel>>

\* uPortQueueTryReceive(): waits waitMs / portTICK_PERIOD_MS ticks; a
\* failure of the kernel call is a timeout.
uPortQueueTryReceive(t, queueHandle, waitMs, pEventData) ==
    /\ CanCall(t)
    /\ CanLog
    /\ UNCHANGED gResourceAllocCount
    /\ LET ticks == waitMs \div cfg.tickMs
           c == Call("QueueTryReceive", NULL, pEventData, queueHandle, waitMs,
                     ticks)
       IN IF queueHandle # NULL /\ pEventData # NULL
          THEN xQueueReceive(t, [c EXCEPT !.kc = TRUE], ticks,
                             U_ERROR_COMMON_TIMEOUT, "QueueTryReceive_wait")
          ELSE /\ Return(t, c, U_ERROR_COMMON_INVALID_PARAMETER)
               /\ UNCHANGED <<kObj, crashed, log>>
    /\ UNCHANGED <<kCreated, kDestroyed, nSelfDel>>

\* Mutant: the receive from an interrupt waits for an item, as
\* uPortQueueReceive() does.
uPortQueueReceiveIrq_Waits(t, queueHandle, pEventData) ==
    /\ CanCall(t)
    /\ CanLog
    /\ UNCHANGED gResourceAllocCount
    /\ LET c == Call("QueueReceiveIrq", NULL, pEventData, queueHandle, 0, 0)
       IN IF queueHandle # NULL /\ pEventData # NULL
          THEN xQueueReceive(t, [c EXCEPT !.kc = TRUE], portMAX_DELAY,
                             U_ERROR_COMMON_PLATFORM, "QueueReceive_wait")
          ELSE /\ Return(t, c, U_ERROR_COMMON_INVALID_PARAMETER)
               /\ UNCHANGED <<kObj, crashed, log>>
    /\ UNCHANGED <<kCreated, kDestroyed, nSelfDel>>

\* uPortQueueReceiveIrq(): xQueueReceiveFromISR() does not wait; a failure
\* of the kernel call is a platform error.
uPortQueueReceiveIrq(t, queueHandle, pEventData) ==
    /\ CanCall(t)
    /\ CanLog
    /\ UNCHANGED gResourceAllocCount
    /\ LET c == Call("QueueReceiveIrq", NULL, pEventData, queueHandle, 0, 0)
       IN IF queueHandle # NULL /\ pEventData # NULL
          THEN xQueueReceive(t, [c EXCEPT !.kc = TRUE], 0,
                             U_ERROR_COMMON_PLATFORM, "QueueReceiveIrq_wait")
          ELSE /\ Return(t, c, U_ERROR_COMMON_INVALID_PARAMETER)
               /\ UNCHANGED <<kObj, crashed, log>>
    /\ UNCHANGED <<kCreated, kDestroyed, nSelfDel>>

uPortQueueTryReceive_wake(t) == xQueueReceive_wake(t, "QueueTryReceive_wait")
uPortQueueTryReceive_timeout(t) ==
    xQueueReceive_timeout(t, U_ERROR_COMMON_TIMEOUT, "QueueTryReceive_wait")

\* xQueuePeek(c.h, c.p, ticks): the front item is copied out and left in
\* the queue; without one the call fails or blocks as xQueueReceive()
\* does.
xQueuePeek(t, c, ticks, failCode, at) ==
    IF IsQueue(c.h)
    THEN /\ UNCHANGED <<crashed, kObj>>
         /\ IF kObj[c.h].count > 0
            THEN /\ Return(t, [c EXCEPT !.out = Head(kObj[c.h].items)],
                           U_ERROR_COMMON_SUCCESS)
                 /\ Logged(c.h, c, U_ERROR_COMMON_SUCCESS)
            ELSE IF ticks = 0
            THEN /\ Return(t, [c EXCEPT !.kfail = TRUE], failCode)
                 /\ Logged(c.h, c, failCode)
            ELSE /\ Goto(t, [c EXCEPT !.b = ticks], at)
                 /\ UNCHANGED log
    ELSE KernelCallOnGarbage(t, c, {U_ERROR_COMMON_SUCCESS, failCode})

\* Mutant: the peek takes the item out, as a receive does.
uPortQueuePeek_Takes(t, queueHandle, pEventData) ==
    /\ CanCall(t)
    /\ CanLog
    /\ UNCHANGED gResourceAllocCount
    /\ LET c == Call("QueuePeek", NULL, pEventData, queueHandle, 0, 0)
       IN IF queueHandle # NULL /\ pEventData # NULL
          THEN xQueueReceive(t, [c EXCEPT !.kc = TRUE], portMAX_DELAY,
                             U_ERROR_COMMON_TIMEOUT, "QueuePeek_wait")
          ELSE /\ Return(t, c, U_ERROR_COMMON_INVALID_PARAMETER)
               /\ UNCHANGED <<kObj, crashed, log>>
    /\ UNCHANGED <<kCreated, kDestroyed, nSelfDel>>

\* uPortQueuePeek(): waits for ever; a failure of the kernel call is a
\* timeout.
uPortQueuePeek(t, queueHandle, pEventData) ==
    /\ CanCall(t)
    /\ CanLog
    /\ UNCHANGED gResourceAllocCount
    /\ LET c == Call("QueuePeek", NULL, pEventData, queueHandle, 0, 0)
       IN IF queueHandle # NULL /\ pEventData # NULL
          THEN xQueuePeek(t, [c EXCEPT !.kc = TRUE], portMAX_DELAY,
                          U_ERROR_COMMON_TIMEOUT, "QueuePeek_wait")
          ELSE /\ Return(t, c, U_ERROR_COMMON_INVALID_PARAMETER)
               /\ UNCHANGED <<kObj, crashed, log>>
    /\ UNCHANGED <<kCreated, kDestroyed, nSelfDel>>

\* A task blocked in xQueuePeek() finds an item.
uPortQueuePeek_wake(t) ==
    /\ At(t, "QueuePeek_wait")
    /\ IsQueue(cur[t].h)
    /\ kObj[cur[t].h].count > 0
    /\ UNCHANGED gResourceAllocCount
    /\ Return(t, [cur[t] EXCEPT !.out = Head(kObj[cur[t].h].items)],
              U_ERROR_COMMON_SUCCESS)
    /\ Logged(cur[t].h, cur[t], U_ERROR_COMMON_SUCCESS)
    /\ UNCHANGED <<kObj, crashed, kCreated, kDestroyed, nSelfDel>>

\* xQueueSendFromISR(h, p, &yield): ok is what it returns, woken what it
\* leaves in yield, died whether the system dies in it.  It never waits:
\* the item goes in if there is room, and nothing changes if there is
\* none.
xQueueSendFromISR(h, pEventData, ok, woken, died) ==
    IF IsQueue(h)
    THEN IF kObj[h].count < kObj[h].cap
         THEN /\ ok /\ ~died
              /\ woken => WaitingToTake(h) # {}
              /\ Enqueue(h, pEventData)
              /\ UNCHANGED crashed
         ELSE /\ ~ok /\ ~woken /\ ~died
              /\ UNCHANGED <<kObj, crashed>>
    ELSE /\ died => (~ok /\ ~woken)
         /\ crashed' = died
         /\ UNCHANGED kObj

\* Mutant: the interrupt version sends as the task version does, waiting
\* for room.
uPortQueueSendIrq_Waits(t, queueHandle, pEventData) ==
    /\ CanCall(t)
    /\ CanLog
    /\ UNCHANGED gResourceAllocCount
    /\ LET c == Call("QueueSendIrq", NULL, pEventData, queueHandle, 0, 0)
       IN IF queueHandle # NULL /\ pEventData # NULL
          THEN xQueueSend(t, [c EXCEPT !.kc = TRUE], "QueueSend_wait")
          ELSE /\ Return(t, c, U_ERROR_COMMON_INVALID_PARAMETER)
               /\ UNCHANGED <<kObj, crashed, log>>
    /\ UNCHANGED <<kCreated, kDestroyed, nSelfDel>>

\* uPortQueueSendIrq(), called from an interrupt that cuts in on t.
uPortQueueSendIrq(t, queueHandle, pEventData) ==
    /\ CanCall(t)
    /\ CanLog
    /\ UNCHANGED gResourceAllocCount
    /\ LET c == Call("QueueSendIrq", NULL, pEventData, queueHandle, 0, 0)
       IN IF queueHandle # NULL /\ pEventData # NULL
          THEN \E ok, woken, died \in BOOLEAN :
               /\ xQueueSendFromISR(queueHandle, pEventData, ok, woken, died)
               /\ IF died
                  THEN /\ Goto(t, [c EXCEPT !.kc = TRUE], "crashed")
                       /\ UNCHANGED log
                  ELSE /\ ReturnFromISR(t, c, ok, woken)
                       /\ IF Live(queueHandle)
                          THEN Logged(queueHandle, c,
                                      IF ok THEN U_ERROR_COMMON_SUCCESS
                                            ELSE U_ERROR_COMMON_PLATFORM)
                          ELSE UNCHANGED log
          ELSE /\ Return(t, c, U_ERROR_COMMON_INVALID_PARAMETER)
               /\ UNCHANGED <<kObj, crashed, log>>
    /\ UNCHANGED <<kCreated, kDestroyed, nSelfDel>>

\* Mutant: the number of items held is returned, not the room left.
uPortQueueGetFree_Held(t, queueHandle) ==
    /\ CanCall(t)
    /\ CanLog
    /\ UNCHANGED gResourceAllocCount
    /\ LET c == Call("QueueGetFree", NULL, NULL, queueHandle, 0, 0)
       IN IF queueHandle # NULL
          THEN IF IsQueue(queueHandle)
               THEN LET free == kObj[queueHandle].count
                    IN /\ Return(t, [c EXCEPT !.kc = TRUE], free)
                       /\ Logged(queueHandle, c, free)
                       /\ UNCHANGED <<kObj, crashed>>
               ELSE /\ \/ /\ \E n \in 0..MaxLen :
                                 Return(t, [c EXCEPT !.kc = TRUE], n)
                          /\ UNCHANGED crashed
                       \/ /\ Goto(t, [c EXCEPT !.kc = TRUE], "crashed")
                          /\ crashed' = TRUE
                    /\ UNCHANGED <<kObj, log>>
          ELSE /\ Return(t, c, U_ERROR_COMMON_INVALID_PARAMETER)
               /\ UNCHANGED <<kObj, crashed, log>>
    /\ UNCHANGED <<kCreated, kDestroyed, nSelfDel>>

\* uPortQueueGetFree(): the result of uxQueueSpacesAvailable(), which on a
\* handle that is no queue is whatever that memory holds.
uPortQueueGetFree(t, queueHandle) ==
    /\ CanCall(t)
    /\ CanLog
    /\ UNCHANGED gResourceAllocCount
    /\ LET c == Call("QueueGetFree", NULL, NULL, queueHandle, 0, 0)
       IN IF queueHandle # NULL
          THEN IF IsQueue(queueHandle)
               THEN LET free == kObj[queueHandle].cap - kObj[queueHandle].count
                    IN /\ Return(t, [c EXCEPT !.kc = TRUE], free)
                       /\ Logged(queueHandle, c, free)
                       /\ UNCHANGED <<kObj, crashed>>
               ELSE /\ \/ /\ \E n \in 0..MaxLen :
                                 Return(t, [c EXCEPT !.kc = TRUE], n)
                          /\ UNCHANGED crashed
                       \/ /\ Goto(t, [c EXCEPT !.kc = TRUE], "crashed")
                          /\ crashed' = TRUE
                    /\ UNCHANGED <<kObj, log>>
          ELSE /\ Return(t, c, U_ERROR_COMMON_INVALID_PARAMETER)
               /\ UNCHANGED <<kObj, crashed, log>>
    /\ UNCHANGED <<kCreated, kDestroyed, nSelfDel>>

(***************************************************************************)
(* TIMERS: create and delete.  uPortPrivateTimerCreate() and               *)
(* uPortPrivateTimerDelete() live in u_port_private.c; they are modelled   *)
(* by their contract: zero and a live timer, or a negative error code and  *)
(* nothing changed.                                                        *)
(***************************************************************************)
\* uPortPrivateTimerCreate(): its result is left in c.ret.
uPortPrivateTimerCreate(t, c, at) ==
    IF c.p # NULL
    THEN \/ \E h \in Handles :
               /\ KernelAlloc(h, TimerObj)
               /\ Goto(t, [c EXCEPT !.kc = TRUE, !.out = h,
                                    !.ret = U_ERROR_COMMON_SUCCESS], at)
         \/ /\ Goto(t, [c EXCEPT !.kc = TRUE, !.ret = U_ERROR_COMMON_PLATFORM], at)
            /\ UNCHANGED <<kObj, log, kCreated>>
    ELSE /\ Goto(t, [c EXCEPT !.ret = U_ERROR_COMMON_INVALID_PARAMETER], at)
         /\ UNCHANGED <<kObj, log, kCreated>>

\* uPortPrivateTimerDelete(): its result is left in c.ret.
uPortPrivateTimerDelete(t, c, at) ==
    IF Live(c.h) /\ kObj[c.h].kind = "timer"
    THEN /\ kDestroyed < MaxDestroys
         /\ kObj' = [kObj EXCEPT ![c.h] = FreeObj]
         /\ kDestroyed' = kDestroyed + 1
         /\ Goto(t, [c EXCEPT !.kc = TRUE, !.ret = U_ERROR_COMMON_SUCCESS], at)
    ELSE /\ Goto(t, [c EXCEPT !.ret = U_ERROR_COMMON_INVALID_PARAMETER], at)
         /\ UNCHANGED <<kObj, kDestroyed>>

\* uPortTimerCreate(): the call of uPortPrivateTimerCreate().
uPortTimerCreate(t, pTimerHandle) ==
    /\ CanCall(t)
    /\ UNCHANGED gResourceAllocCount
    /\ uPortPrivateTimerCreate(
           t, Call("TimerCreate", NULL, pTimerHandle, NULL, 0, 0),
           "TimerCreate_ret")
    /\ UNCHANGED <<crashed, kDestroyed, nSelfDel>>

\* Mutant: the increment does not depend on errorCode.
uPortTimerCreate_ret_Always(t) ==
    /\ At(t, "TimerCreate_ret")
    /\ gResourceAllocCount' = U_ATOMIC_INCREMENT(gResourceAllocCount)
    /\ Return(t, cur[t], cur[t].ret)
    /\ UNCHANGED <<kObj, crashed, kCreated, kDestroyed, nSelfDel, log>>

\* uPortTimerCreate(): the test of errorCode, the increment and the return.
uPortTimerCreate_ret(t) ==
    /\ At(t, "TimerCreate_ret")
    /\ gResourceAllocCount' = IF cur[t].ret = 0
                              THEN U_ATOMIC_INCREMENT(gResourceAllocCount)
                              ELSE gResourceAllocCount
    /\ Return(t, cur[t], cur[t].ret)
    /\ UNCHANGED <<kObj, crashed, kCreated, kDestroyed, nSelfDel, log>>

\* uPortTimerDelete(): the call of uPortPrivateTimerDelete().
uPortTimerDelete(t, timerHandle) ==
    /\ CanCall(t)
    /\ UNCHANGED gResourceAllocCount
    /\ uPortPrivateTimerDelete(
           t, Call("TimerDelete", NULL, NULL, timerHandle, 0, 0),
           "TimerDelete_ret")
    /\ UNCHANGED <<crashed, kCreated, nSelfDel, log>>

\* Mutant: the decrement does not depend on errorCode.
uPortTimerDelete_ret_Always(t) ==
    /\ At(t, "TimerDelete_ret")
    /\ gResourceAllocCount' = U_ATOMIC_DECREMENT(gResourceAllocCount)
    /\ Return(t, cur[t], cur[t].ret)
    /\ UNCHANGED <<kObj, crashed, kCreated, kDestroyed, nSelfDel, log>>

\* uPortTimerDelete(): the test of errorCode, the decrement and the return.
uPortTimerDelete_ret(t) ==
    /\ At(t, "TimerDelete_ret")
    /\ gResourceAllocCount' = IF cur[t].ret = 0
                              THEN U_ATOMIC_DECREMENT(gResourceAllocCount)
                              ELSE gResourceAllocCount
    /\ Return(t, cur[t], cur[t].ret)
    /\ UNCHANGED <<kObj, crashed, kCreated, kDestroyed, nSelfDel, log>>

(***************************************************************************)
(* TIMERS: start, stop and change.  The three wrappers test nothing: they  *)
(* hand the handle to the kernel and turn its answer into a code.          *)
(***************************************************************************)
IsTimer(h) == Live(h) /\ kObj[h].kind = "timer"

\* xTimerStart() / xTimerStop() / xTimerChangePeriod() with a wait of
\* portMAX_DELAY: the command is queued for the timer task and pdPASS
\* returned, or it is not and pdFAIL is returned; then is the timer once
\* the command is done.  The wrapper returns success on pdPASS and a
\* platform error otherwise.
xTimerGenericCommand(t, c, then) ==
    IF IsTimer(c.h)
    THEN /\ UNCHANGED <<crashed, log>>
         /\ \/ /\ kObj' = [kObj EXCEPT ![c.h] = then]
               /\ Return(t, c, U_ERROR_COMMON_SUCCESS)
            \/ /\ UNCHANGED kObj
               /\ Return(t, [c EXCEPT !.kfail = TRUE], U_ERROR_COMMON_PLATFORM)
    ELSE KernelCallOnGarbage(t, c, {U_ERROR_COMMON_SUCCESS,
                                    U_ERROR_COMMON_PLATFORM})

\* The timer at h with its run state, and its period, set.
TimerSet(h, running, ticks) ==
    IF IsTimer(h) THEN [kObj[h] EXCEPT !.count = running, !.cap = ticks]
                  ELSE FreeObj

\* Mutant: uPortTimerStart() rejects a null handle before the kernel call.
uPortTimerStart_NullTest(t, timerHandle) ==
    /\ CanCall(t)
    /\ UNCHANGED gResourceAllocCount
    /\ LET c == Call("TimerStart", NULL, NULL, timerHandle, 0, 0)
       IN IF timerHandle # NULL
          THEN xTimerGenericCommand(t, [c EXCEPT !.kc = TRUE],
                           TimerSet(timerHandle, 1, kObj[timerHandle].cap))
          ELSE /\ Return(t, c, U_ERROR_COMMON_INVALID_PARAMETER)
               /\ UNCHANGED <<kObj, crashed, log>>
    /\ UNCHANGED <<kCreated, kDestroyed, nSelfDel>>

\* uPortTimerStart().
uPortTimerStart(t, timerHandle) ==
    /\ CanCall(t)
    /\ UNCHANGED gResourceAllocCount
    /\ LET c == Call("TimerStart", NULL, NULL, timerHandle, 0, 0)
       IN xTimerGenericCommand(t, [c EXCEPT !.kc = TRUE],
              TimerSet(timerHandle, 1,
                       IF IsTimer(timerHandle) THEN kObj[timerHandle].cap ELSE 0))
    /\ UNCHANGED <<kCreated, kDestroyed, nSelfDel>>

\* uPortTimerStop().
uPortTimerStop(t, timerHandle) ==
    /\ CanCall(t)
    /\ UNCHANGED gResourceAllocCount
    /\ LET c == Call("TimerStop", NULL, NULL, timerHandle, 0, 0)
       IN xTimerGenericCommand(t, [c EXCEPT !.kc = TRUE],
              TimerSet(timerHandle, 0,
                       IF IsTimer(timerHandle) THEN kObj[timerHandle].cap ELSE 0))
    /\ UNCHANGED <<kCreated, kDestroyed, nSelfDel>>

\* uPortTimerChange(): the new period is intervalMs / portTICK_PERIOD_MS
\* ticks; changing the period of a timer also sets it running.
uPortTimerChange(t, timerHandle, intervalMs) ==
    /\ CanCall(t)
    /\ UNCHANGED gResourceAllocCount
    /\ LET c == Call("TimerChange", NULL, NULL, timerHandle, intervalMs,
                     intervalMs \div cfg.tickMs)
       IN xTimerGenericCommand(t, [c EXCEPT !.kc = TRUE],
              TimerSet(timerHandle, 1, intervalMs \div cfg.tickMs))
    /\ UNCHANGED <<kCreated, kDestroyed, nSelfDel>>

(***************************************************************************)
(* DEBUGGING/MONITORING                                                    *)
(***************************************************************************)
\* uPortOsResourceAllocCount(): an atomic read of the counter.
uPortOsResourceAllocCount(t) ==
    /\ CanCall(t)
    /\ UNCHANGED gResourceAllocCount
    /\ Return(t, Call("ResourceAllocCount", NULL, NULL, NULL, 0, 0),
              gResourceAllocCount)
    /\ UNCHANGED <<kObj, crashed, kCreated, kDestroyed, nSelfDel, log>>

(***************************************************************************)
(* INACTIVITY DETECTOR.  u_debug_utils.c is not among the sources; the     *)
(* detector is modelled by what its header and the specification say: the  *)
(* initialisation checks the pointer, keeps it and creates a task of the   *)
(* lowest priority with uPortTaskCreate(), whose result it returns; the    *)
(* task samples the counter once per check period, reports if the sample   *)
(* equals the previous one, and keeps the sample.  The first poll has no   *)
(* previous sample and reports nothing.                                    *)
(***************************************************************************)
\* int32_t arithmetic on the activity counter: it wraps.
WrapInc(x) == IF x = INT32_MAX THEN INT32_MIN ELSE x + 1
WrapDec(x) == IF x = INT32_MIN THEN INT32_MAX ELSE x - 1

\* uDebugUtilsInitInactivityDetector() up to the call of uPortTaskCreate():
\* a null pointer is rejected, any other is kept.  count is what the
\* counter holds at that moment.
uDebugUtilsInitInactivityDetector(t, pActivityCounter, count) ==
    /\ CanCall(t)
    /\ wd.init = NULL
    /\ IF pActivityCounter = NULL
       THEN /\ UNCHANGED gResourceAllocCount
            /\ Return(t, Call("InitInactivityDetector", NULL, pActivityCounter,
                              NULL, 0, 0),
                      U_ERROR_COMMON_INVALID_PARAMETER)
            /\ UNCHANGED <<kObj, crashed, kCreated, kDestroyed, nSelfDel, log>>
       ELSE /\ wd' = [wd EXCEPT !.init = t, !.p = pActivityCounter,
                                !.counter = count]
            /\ last' = NoCall
            /\ UNCHANGED <<gResourceAllocCount, kObj, pc, cur, crashed,
                           kCreated, kDestroyed, nCreateOk, nDestroyOk,
                           nSelfDel, log, now, cfg, sec, mtx>>

\* The call of uPortTaskCreate() made by the initialisation.
uDebugUtilsInitInactivityDetector_create(t) ==
    /\ wd.init = t
    /\ last.op = "none"
    /\ uPortTaskCreate(t, ValidPtr, U_CFG_OS_PRIORITY_MIN, ValidPtr)

\* Mutant: a failure to create the task is reported as a platform error.
uDebugUtilsInitInactivityDetector_ret_Platform(t) ==
    /\ wd.init = t
    /\ CanCall(t)
    /\ last.op = "TaskCreate" /\ last.by = t
    /\ ClientReturn(t, [Call("InitInactivityDetector", NULL, wd.p, NULL, 0, 0)
                           EXCEPT !.kc = TRUE, !.out = last.out],
                    IF last.ret = 0 THEN 0 ELSE U_ERROR_COMMON_PLATFORM)
    /\ wd' = [wd EXCEPT !.init = NULL,
                        !.task = IF last.ret = 0 THEN last.out ELSE NULL]
    /\ UNCHANGED <<sec, mtx>>

\* uDebugUtilsInitInactivityDetector() returns what uPortTaskCreate()
\* returned; the task it created, if any, is the watchdog.
uDebugUtilsInitInactivityDetector_ret(t) ==
    /\ wd.init = t
    /\ CanCall(t)
    /\ last.op = "TaskCreate" /\ last.by = t
    /\ ClientReturn(t, [Call("InitInactivityDetector", NULL, wd.p, NULL, 0, 0)
                           EXCEPT !.kc = TRUE, !.out = last.out],
                    last.ret)
    /\ wd' = [wd EXCEPT !.init = NULL,
                        !.task = IF last.ret = 0 THEN last.out ELSE NULL]
    /\ UNCHANGED <<sec, mtx>>

\* One round of the watchdog task: it wakes after a check period, samples
\* the counter, reports if report, which compares the sample with the
\* previous one, and keeps the sample.
PollWith(report) ==
    /\ ~crashed
    /\ wd.task # NULL /\ pc[wd.task] = "idle"
    /\ wd.polls < MaxPolls
    /\ LET first == wd.prev = <<>>
           said == IF ~first /\ report THEN 1 ELSE 0
           still == ~first /\ wd.moves = 0
       IN wd' = [wd EXCEPT !.prev = <<wd.counter>>,
                           !.polls = @ + 1,
                           !.reports = @ + said,
                           !.moves = 0,
                           !.run = IF still THEN @ + 1 ELSE 0,
                           !.runReports = IF still THEN @ + said ELSE 0]
    /\ last' = NoCall
    /\ UNCHANGED <<gResourceAllocCount, kObj, pc, cur, crashed, kCreated,
                   kDestroyed, nCreateOk, nDestroyOk, nSelfDel, log, now, cfg,
                   sec, mtx>>

\* Mutant: a report is made when the counter has not grown.
Poll_NotGrown == PollWith(wd.counter <= wd.prev[1])

\* The poll: value equality only.
Poll == PollWith(wd.counter = wd.prev[1])

\* The application changes its activity counter, to next.
Activity(next) ==
    /\ ~crashed
    /\ wd.p # NULL
    /\ wd.moves < MaxMoves
    /\ wd' = [wd EXCEPT !.counter = next, !.moves = @ + 1]
    /\ last' = NoCall
    /\ UNCHANGED <<gResourceAllocCount, kObj, pc, cur, crashed, kCreated,
                   kDestroyed, nCreateOk, nDestroyOk, nSelfDel, log, now, cfg,
                   sec, mtx>>

(***************************************************************************)
(* The steps a task can take, by kind of primitive.  The argument sets say *)
(* which values of the integer arguments are tried.                        *)
(***************************************************************************)
TaskSteps(t, priorities) ==
    \/ \E f \in Pointers, prio \in priorities, p \in Pointers :
          uPortTaskCreate(t, f, prio, p)
    \/ uPortTaskCreate_inc(t)
    \/ \E h \in Tasks \cup {NULL} : uPortTaskDelete(t, h)
    \/ uPortTaskDelete_kill(t)

QueueLifeSteps(t, lengths) ==
    \/ \E len \in lengths, p \in Pointers : uPortQueueCreate(t, len, p)
    \/ uPortQueueCreate_inc(t)
    \/ \E h \in Handles \cup {NULL} : uPortQueueDelete(t, h)
    \/ uPortQueueDelete_dec(t)

MutexLifeSteps(t) ==
    \/ \E p \in Pointers : uPortMutexCreate(t, p)
    \/ uPortMutexCreate_inc(t)
    \/ \E h \in Handles \cup {NULL} : uPortMutexDelete(t, h)
    \/ uPortMutexDelete_dec(t)

SemaphoreLifeSteps(t, counts, limits) ==
    \/ \E p \in Pointers, initialCount \in counts, limit \in limits :
          uPortSemaphoreCreate(t, p, initialCount, limit)
    \/ uPortSemaphoreCreate_inc(t)
    \/ \E h \in Handles \cup {NULL} : uPortSemaphoreDelete(t, h)
    \/ uPortSemaphoreDelete_dec(t)

TimerLifeSteps(t) ==
    \/ \E p \in Pointers : uPortTimerCreate(t, p)
    \/ uPortTimerCreate_ret(t)
    \/ \E h \in Handles \cup {NULL} : uPortTimerDelete(t, h)
    \/ uPortTimerDelete_ret(t)

(***************************************************************************)
(* Spec: the life cycle of the primitives.  Every create and destroy of    *)
(* the five kinds, called by any task at any time; each parameter check    *)
(* is tried with one accepted and one rejected value.                      *)
(***************************************************************************)
LifeSteps(t) ==
    \/ TaskSteps(t, {U_CFG_OS_PRIORITY_MIN, U_CFG_OS_PRIORITY_MAX + 1})
    \/ QueueLifeSteps(t, {1})
    \/ MutexLifeSteps(t)
    \/ SemaphoreLifeSteps(t, {1}, {0, 1})
    \/ TimerLifeSteps(t)
    \/ uPortOsResourceAllocCount(t)

Next == \E t \in Tasks : LifeSteps(t)

Spec == Init /\ [][Next]_vars

(***************************************************************************)
(* SpecSeq: the same calls made one after the other: a task takes a step   *)
(* only while no other task is in the middle of a call.                    *)
(***************************************************************************)
OthersQuiet(t) == \A u \in Tasks \ {t} : pc[u] \in {"idle", "dead"}

NextSeq ==
    \E t \in Tasks :
        \/ OthersQuiet(t) /\ TaskSteps(t, {U_CFG_OS_PRIORITY_MIN,
                                            U_CFG_OS_PRIORITY_MAX + 1})
        \/ OthersQuiet(t) /\ QueueLifeSteps(t, {1})
        \/ OthersQuiet(t) /\ MutexLifeSteps(t)
        \/ OthersQuiet(t) /\ SemaphoreLifeSteps(t, {1}, {0, 1})
        \/ OthersQuiet(t) /\ TimerLifeSteps(t)
        \/ OthersQuiet(t) /\ uPortOsResourceAllocCount(t)

SpecSeq == Init /\ [][NextSeq]_vars

(***************************************************************************)
(* SpecTask: task creation and deletion over the whole range of            *)
(* priorities tried.                                                       *)
(***************************************************************************)
NextTask ==
    \E t \in Tasks :
        \/ TaskSteps(t, Priorities)
        \/ uPortOsResourceAllocCount(t)

SpecTask == Init /\ [][NextTask]_vars

(***************************************************************************)
(* SpecSem: one semaphore used by one task.  The semaphore is created     *)
(* with every initial count and limit up to MaxLen (and one past it for    *)
(* the count), then taken with no wait and with a wait of one tick, and    *)
(* given.  No other task runs, so a take that blocks can only time out.    *)
(***************************************************************************)
NextSem ==
    \E t \in Tasks :
        \/ /\ \A h \in Handles : ~Live(h)
           /\ \E p \in Pointers, initialCount \in 0..MaxLen + 1,
                 limit \in 0..MaxLen :
                  uPortSemaphoreCreate(t, p, initialCount, limit)
        \/ uPortSemaphoreCreate_inc(t)
        \/ \E h \in Handles \cup {NULL}, delayMs \in {0, portTICK_PERIOD_MS} :
              uPortSemaphoreTryTake(t, h, delayMs)
        \/ uPortSemaphoreTryTake_timeout(t)
        \/ \E h \in Handles \cup {NULL} : uPortSemaphoreGive(t, h)

SpecSem == Init /\ [][NextSem]_vars

(***************************************************************************)
(* SpecQueue: one queue of every length up to MaxLen, a sending task and   *)
(* a receiving task.  The main task creates the queue and the second task, *)
(* sends and asks for the free slots; the second task receives.  A task    *)
(* that is ready runs in the end, so a sender blocked on a queue that has  *)
(* room, and that nobody else sends to, gets to put its item in.           *)
(***************************************************************************)
NextQueue ==
    \/ uPortTaskCreate(MainTask, ValidPtr, U_CFG_OS_PRIORITY_MIN, ValidPtr)
    \/ uPortTaskCreate_inc(MainTask)
    \/ /\ \A h \in Handles : ~Live(h)
       /\ \E queueLength \in 1..MaxLen, p \in Pointers :
              uPortQueueCreate(MainTask, queueLength, p)
    \/ uPortQueueCreate_inc(MainTask)
    \/ \E h \in Handles \cup {NULL}, p \in Pointers :
          uPortQueueSend(MainTask, h, p)
    \/ uPortQueueSend_wake(MainTask)
    \/ \E h \in Handles \cup {NULL} : uPortQueueGetFree(MainTask, h)
    \/ \E t \in Tasks \ {MainTask}, h \in Handles \cup {NULL}, p \in Pointers :
          uPortQueueReceive(t, h, p)
    \/ \E t \in Tasks \ {MainTask} : uPortQueueReceive_wake(t)

SpecQueue ==
    /\ Init
    /\ [][NextQueue]_vars
    /\ WF_vars(uPortQueueSend_wake(MainTask))

(***************************************************************************)
(* SpecUse: the primitives in use.  One queue, mutex, semaphore or timer   *)
(* at a time, made by the main task with parameters that are accepted,     *)
(* and used by the main task and by a second task it creates.  The main   *)
(* task calls every use operation on the null handle, on the handle of     *)
(* the object and on the handle that has no object; the waits tried are    *)
(* none and one tick.  No record of the calls is kept and time is not      *)
(* followed: a bounded wait can run out at any moment, a wait for ever     *)
(* never does.                                                             *)
(***************************************************************************)
InitUse ==
    /\ cfg = [tickMs |-> portTICK_PERIOD_MS, history |-> FALSE, timed |-> FALSE]
    /\ Boot

\* The items sent: two that can be told apart.
Items == {ValidPtr, ValidPtr + 1}
Waits == {0, portTICK_PERIOD_MS}
NoObject == \A h \in Handles : ~Live(h)

MakeSteps ==
    \/ uPortTaskCreate(MainTask, ValidPtr, U_CFG_OS_PRIORITY_MIN, ValidPtr)
    \/ uPortTaskCreate_inc(MainTask)
    \/ NoObject /\ \E len \in 1..MaxLen : uPortQueueCreate(MainTask, len, ValidPtr)
    \/ uPortQueueCreate_inc(MainTask)
    \/ NoObject /\ uPortMutexCreate(MainTask, ValidPtr)
    \/ uPortMutexCreate_inc(MainTask)
    \/ NoObject /\ \E limit \in 1..MaxLen :
                       \E initialCount \in 0..limit :
                          uPortSemaphoreCreate(MainTask, ValidPtr, initialCount, limit)
    \/ uPortSemaphoreCreate_inc(MainTask)
    \/ NoObject /\ uPortTimerCreate(MainTask, ValidPtr)
    \/ uPortTimerCreate_ret(MainTask)

QueueUseSteps(t) ==
    \/ \E h \in Handles \cup {NULL}, p \in Items \cup {NULL} :
          \/ uPortQueueSend(t, h, p)
          \/ uPortQueueSendIrq(t, h, p)
    \/ uPortQueueSend_wake(t)
    \/ \E h \in Handles \cup {NULL}, p \in Pointers :
          \/ uPortQueueReceive(t, h, p)
          \/ uPortQueuePeek(t, h, p)
          \/ \E waitMs \in Waits : uPortQueueTryReceive(t, h, waitMs, p)
    \/ uPortQueueReceive_wake(t)
    \/ uPortQueuePeek_wake(t)
    \/ uPortQueueTryReceive_wake(t)
    \/ uPortQueueTryReceive_timeout(t)
    \/ \E h \in Handles \cup {NULL} : uPortQueueGetFree(t, h)

LockUseSteps(t) ==
    \/ \E h \in Handles \cup {NULL} :
          \/ uPortMutexLock(t, h)
          \/ uPortMutexUnlock(t, h)
          \/ uPortSemaphoreTake(t, h)
          \/ uPortSemaphoreGive(t, h)
          \/ uPortSemaphoreGiveIrq(t, h)
          \/ \E delayMs \in Waits :
                \/ uPortMutexTryLock(t, h, delayMs)
                \/ uPortSemaphoreTryTake(t, h, delayMs)
    \/ uPortMutexLock_wake(t)
    \/ uPortMutexTryLock_wake(t)
    \/ uPortMutexTryLock_timeout(t)
    \/ uPortSemaphoreTake_wake(t)
    \/ uPortSemaphoreTryTake_wake(t)
    \/ uPortSemaphoreTryTake_timeout(t)

TimerUseSteps(t) ==
    \E h \in Handles \cup {NULL} :
        \/ uPortTimerStart(t, h)
        \/ uPortTimerStop(t, h)
        \/ uPortTimerChange(t, h, portTICK_PERIOD_MS)

\* The second task waits for what the main task makes: it receives, peeks,
\* takes and locks, and it unlocks.
WaiterSteps(t) ==
    \/ \E h \in Handles :
          \/ uPortQueueReceive(t, h, ValidPtr)
          \/ uPortQueuePeek(t, h, ValidPtr)
          \/ uPortSemaphoreTake(t, h)
          \/ uPortMutexLock(t, h)
          \/ uPortMutexUnlock(t, h)
    \/ uPortQueueReceive_wake(t)
    \/ uPortQueuePeek_wake(t)
    \/ uPortSemaphoreTake_wake(t)
    \/ uPortMutexLock_wake(t)

NextUse ==
    \/ MakeSteps
    \/ QueueUseSteps(MainTask)
    \/ LockUseSteps(MainTask)
    \/ TimerUseSteps(MainTask)
    \/ \E t \in Tasks \ {MainTask} : WaiterSteps(t)

SpecUse == InitUse /\ [][NextUse]_vars

(***************************************************************************)
(* SpecTimer: one timer at a time, made and deleted by the main task and   *)
(* started, stopped and changed through the null handle, its own handle    *)
(* and the handle that has no object; the periods tried are none and one   *)
(* tick.                                                                   *)
(***************************************************************************)
NextTimer ==
    \/ NoObject /\ uPortTimerCreate(MainTask, ValidPtr)
    \/ uPortTimerCreate_ret(MainTask)
    \/ \E h \in Handles : uPortTimerDelete(MainTask, h)
    \/ uPortTimerDelete_ret(MainTask)
    \/ \E h \in Handles \cup {NULL} :
          \/ uPortTimerStart(MainTask, h)
          \/ uPortTimerStop(MainTask, h)
          \/ \E intervalMs \in Waits : uPortTimerChange(MainTask, h, intervalMs)
    \/ uPortOsResourceAllocCount(MainTask)

SpecTimer == InitUse /\ [][NextTimer]_vars

(***************************************************************************)
(* SpecTime: a receive with a wait, against the kernel's clock.  The main  *)
(* task makes a queue that nobody sends to and calls                       *)
(* uPortQueueTryReceive() on it, at any moment, with no wait, half a       *)
(* default tick and a whole one; the build's tick period is one            *)
(* millisecond or the default.  Time passes a millisecond at a time, up to *)
(* MaxTime.                                                                *)
(***************************************************************************)
TickPeriods == {1, portTICK_PERIOD_MS}
TimedWaits == {0, portTICK_PERIOD_MS \div 2, portTICK_PERIOD_MS}

InitTime ==
    /\ \E tickMs \in TickPeriods :
          cfg = [tickMs |-> tickMs, history |-> FALSE, timed |-> TRUE]
    /\ Boot

\* A millisecond passes.
Elapse ==
    /\ ~crashed
    /\ now < MaxTime
    /\ now' = now + 1
    /\ last' = NoCall
    /\ UNCHANGED <<gResourceAllocCount, kObj, pc, cur, crashed, kCreated,
                   kDestroyed, nCreateOk, nDestroyOk, nSelfDel, log, cfg,
                   wd, sec, mtx>>

NextTime ==
    \/ NoObject /\ uPortQueueCreate(MainTask, 1, ValidPtr)
    \/ uPortQueueCreate_inc(MainTask)
    \/ \E h \in Handles, waitMs \in TimedWaits :
          IsQueue(h) /\ uPortQueueTryReceive(MainTask, h, waitMs, ValidPtr)
    \/ uPortQueueTryReceive_timeout(MainTask)
    \/ Elapse

SpecTime == InitTime /\ [][NextTime]_vars

(***************************************************************************)
(* SpecWatchdog: the inactivity detector.  The main task initialises it,   *)
(* with a null pointer and with the address of a counter that holds zero   *)
(* or one of the two ends of its range; the watchdog task polls up to      *)
(* MaxPolls times, and between two polls the application moves the counter *)
(* up or down by one, up to MaxMoves times; it leaves the counter alone    *)
(* while the initialisation is going on.                                   *)
(***************************************************************************)
NextWatchdog ==
    \/ /\ wd.task = NULL
       /\ \E p \in Pointers, count \in {0, INT32_MAX, INT32_MIN} :
              uDebugUtilsInitInactivityDetector(MainTask, p, count)
    \/ uDebugUtilsInitInactivityDetector_create(MainTask)
    \/ wd.init = MainTask /\ uPortTaskCreate_inc(MainTask)
    \/ uDebugUtilsInitInactivityDetector_ret(MainTask)
    \/ Poll
    \/ wd.init = NULL /\ Activity(WrapInc(wd.counter))
    \/ wd.init = NULL /\ Activity(WrapDec(wd.counter))

SpecWatchdog == InitUse /\ [][NextWatchdog]_vars

(***************************************************************************)
(* SpecFifo: one queue, with the record of the calls made on it.  The main *)
(* task makes the queue and sends two items that can be told apart, from   *)
(* a task and from an interrupt; the second task receives in the three     *)
(* ways, and the main task receives from an interrupt.  No call is begun   *)
(* once MaxFifoLog calls are on the record.                                *)
(***************************************************************************)
NextFifo ==
    \/ uPortTaskCreate(MainTask, ValidPtr, U_CFG_OS_PRIORITY_MIN, ValidPtr)
    \/ uPortTaskCreate_inc(MainTask)
    \/ NoObject /\ \E len \in 1..MaxLen : uPortQueueCreate(MainTask, len, ValidPtr)
    \/ uPortQueueCreate_inc(MainTask)
    \/ \E h \in Handles, p \in Items :
          /\ IsQueue(h) /\ TotalLogged < MaxFifoLog
          /\ \/ uPortQueueSend(MainTask, h, p)
             \/ uPortQueueSendIrq(MainTask, h, p)
    \/ uPortQueueSend_wake(MainTask)
    \/ \E t \in Tasks, h \in Handles :
          /\ IsQueue(h) /\ TotalLogged < MaxFifoLog
          /\ uPortQueueReceiveIrq(t, h, ValidPtr)
    \/ \E t \in Tasks \ {MainTask}, h \in Handles :
          /\ IsQueue(h) /\ TotalLogged < MaxFifoLog
          /\ \/ uPortQueueReceive(t, h, ValidPtr)
             \/ \E waitMs \in Waits : uPortQueueTryReceive(t, h, waitMs, ValidPtr)
    \/ \E t \in Tasks \ {MainTask} :
          \/ uPortQueueReceive_wake(t)
          \/ uPortQueueTryReceive_wake(t)
          \/ uPortQueueTryReceive_timeout(t)

SpecFifo == Init /\ [][NextFifo]_vars

(***************************************************************************)
(* SpecCount: one counting semaphore, made by the main task with a limit   *)
(* of up to MaxLen and any initial count within it; both tasks take, try   *)
(* to take, give and give from an interrupt.                               *)
(***************************************************************************)
NextCount ==
    \/ uPortTaskCreate(MainTask, ValidPtr, U_CFG_OS_PRIORITY_MIN, ValidPtr)
    \/ uPortTaskCreate_inc(MainTask)
    \/ NoObject /\ \E limit \in 1..MaxLen :
                       \E initialCount \in 0..limit :
                          uPortSemaphoreCreate(MainTask, ValidPtr, initialCount, limit)
    \/ uPortSemaphoreCreate_inc(MainTask)
    \/ \E t \in Tasks, h \in Handles :
          /\ kObj[h].kind = "sem"
          /\ \/ uPortSemaphoreTake(t, h)
             \/ \E delayMs \in Waits : uPortSemaphoreTryTake(t, h, delayMs)
             \/ uPortSemaphoreGive(t, h)
             \/ uPortSemaphoreGiveIrq(t, h)
    \/ \E t \in Tasks :
          \/ uPortSemaphoreTake_wake(t)
          \/ uPortSemaphoreTryTake_wake(t)
          \/ uPortSemaphoreTryTake_timeout(t)

SpecCount == InitUse /\ [][NextCount]_vars

(***************************************************************************)
(* SpecReceive: a task blocked in uPortQueueReceive().  The second task    *)
(* receives from the one queue and waits when it is empty; the main task   *)
(* sends two items that can be told apart, from a task and from an         *)
(* interrupt, and takes items itself without waiting.  The kernel is fair  *)
(* to the task that waits: when there is an item for it and there goes on  *)
(* being one, it runs.                                                     *)
(***************************************************************************)
NextReceive ==
    \/ uPortTaskCreate(MainTask, ValidPtr, U_CFG_OS_PRIORITY_MIN, ValidPtr)
    \/ uPortTaskCreate_inc(MainTask)
    \/ NoObject /\ \E len \in 1..MaxLen : uPortQueueCreate(MainTask, len, ValidPtr)
    \/ uPortQueueCreate_inc(MainTask)
    \/ \E h \in Handles, p \in Items :
          /\ IsQueue(h)
          /\ \/ uPortQueueSend(MainTask, h, p)
             \/ uPortQueueSendIrq(MainTask, h, p)
    \/ uPortQueueSend_wake(MainTask)
    \/ \E h \in Handles :
          /\ IsQueue(h)
          /\ \/ uPortQueueReceiveIrq(MainTask, h, ValidPtr)
             \/ uPortQueueTryReceive(MainTask, h, 0, ValidPtr)
    \/ \E t \in Tasks \ {MainTask}, h \in Handles :
          IsQueue(h) /\ uPortQueueReceive(t, h, ValidPtr)
    \/ \E t \in Tasks \ {MainTask} : uPortQueueReceive_wake(t)

SpecReceive ==
    /\ InitUse
    /\ [][NextReceive]_vars
    /\ \A t \in Tasks \ {MainTask} : WF_vars(uPortQueueReceive_wake(t))

(***************************************************************************)
(* SECURITY: the chip-to-chip session and the seal of one module, as       *)
(* u_security.h describes them.  The pointers passed are not null, as the  *)
(* header requires of the caller; keys stands for the secret, key and HMAC *)
(* of one pairing.  A request that reaches the module may fail, with any   *)
(* of the error codes.                                                     *)
(***************************************************************************)
\* The call returns r and leaves the session as next.
SecurityReturn(t, c, r, next) ==
    /\ ClientReturn(t, c, r)
    /\ sec' = next
    /\ UNCHANGED <<wd, mtx>>

\* Mutant: a session that is open is opened again, with the new keys.
uSecurityC2cOpen_Again(t, keys) ==
    /\ CanCall(t)
    /\ LET c == Call("C2cOpen", NULL, NULL, NULL, keys, 0)
           opened == [sec EXCEPT !.open = TRUE, !.keys = keys,
                                 !.encrypted = TRUE]
       IN \/ SecurityReturn(t, c, U_ERROR_COMMON_SUCCESS, opened)
          \/ /\ ~sec.open
             /\ \E r \in {U_ERROR_COMMON_PLATFORM, U_ERROR_COMMON_TIMEOUT} :
                    SecurityReturn(t, c, r, sec)

\* uSecurityC2cOpen(): nothing is done if a session is open.
uSecurityC2cOpen(t, keys) ==
    /\ CanCall(t)
    /\ LET c == Call("C2cOpen", NULL, NULL, NULL, keys, 0)
           opened == [sec EXCEPT !.open = TRUE, !.keys = keys,
                                 !.encrypted = TRUE]
       IN IF sec.open
          THEN SecurityReturn(t, c, U_ERROR_COMMON_SUCCESS, sec)
          ELSE \/ SecurityReturn(t, c, U_ERROR_COMMON_SUCCESS, opened)
               \/ \E r \in {U_ERROR_COMMON_PLATFORM, U_ERROR_COMMON_TIMEOUT} :
                     SecurityReturn(t, c, r, sec)

\* uSecurityC2cClose(): nothing is done if no session is open.
uSecurityC2cClose(t) ==
    /\ CanCall(t)
    /\ LET c == Call("C2cClose", NULL, NULL, NULL, 0, 0)
           closed == [sec EXCEPT !.open = FALSE, !.keys = NULL,
                                 !.encrypted = FALSE]
       IN IF ~sec.open
          THEN SecurityReturn(t, c, U_ERROR_COMMON_SUCCESS, sec)
          ELSE \/ SecurityReturn(t, c, U_ERROR_COMMON_SUCCESS, closed)
               \/ \E r \in {U_ERROR_COMMON_PLATFORM, U_ERROR_COMMON_TIMEOUT} :
                     SecurityReturn(t, c, r, sec)

\* The module is powered off or rebooted: the session is gone, the seal
\* stays.
PowerCycle ==
    /\ ~crashed
    /\ sec.boots < MaxBoots
    /\ sec' = [sec EXCEPT !.open = FALSE, !.keys = NULL, !.encrypted = FALSE,
                          !.boots = @ + 1]
    /\ last' = NoCall
    /\ UNCHANGED <<gResourceAllocCount, kObj, pc, cur, crashed, kCreated,
                   kDestroyed, nCreateOk, nDestroyOk, nSelfDel, log, now, cfg,
                   wd, mtx>>

\* Mutant: sealing a sealed module succeeds.
uSecuritySealSet_Idempotent(t) ==
    /\ CanCall(t)
    /\ LET c == Call("SealSet", NULL, NULL, NULL, 0, 0)
       IN \/ SecurityReturn(t, c, U_ERROR_COMMON_SUCCESS,
                            [sec EXCEPT !.sealed = TRUE])
          \/ /\ ~sec.sealed
             /\ \E r \in {U_ERROR_COMMON_PLATFORM, U_ERROR_COMMON_TIMEOUT} :
                    SecurityReturn(t, c, r, sec)

\* uSecuritySealSet(): an error if the module is sealed already.
uSecuritySealSet(t) ==
    /\ CanCall(t)
    /\ LET c == Call("SealSet", NULL, NULL, NULL, 0, 0)
       IN IF sec.sealed
          THEN \E r \in {U_ERROR_COMMON_INVALID_PARAMETER,
                         U_ERROR_COMMON_PLATFORM} :
                  SecurityReturn(t, c, r, sec)
          ELSE \/ SecurityReturn(t, c, U_ERROR_COMMON_SUCCESS,
                                 [sec EXCEPT !.sealed = TRUE])
               \/ \E r \in {U_ERROR_COMMON_PLATFORM, U_ERROR_COMMON_TIMEOUT} :
                     SecurityReturn(t, c, r, sec)

\* uSecurityIsSealed(): true (1) or false (0).
uSecurityIsSealed(t) ==
    /\ CanCall(t)
    /\ SecurityReturn(t, Call("IsSealed", NULL, NULL, NULL, 0, 0),
                      IF sec.sealed THEN 1 ELSE 0, sec)

\* SpecSecurity: the main task opens and closes sessions with the keys of
\* two pairings, seals the module and asks for the seal, and the module is
\* power-cycled up to MaxBoots times.
NextSecurity ==
    \/ \E keys \in {ValidPtr, ValidPtr + 1} : uSecurityC2cOpen(MainTask, keys)
    \/ uSecurityC2cClose(MainTask)
    \/ uSecuritySealSet(MainTask)
    \/ uSecurityIsSealed(MainTask)
    \/ PowerCycle

SpecSecurity == InitUse /\ [][NextSecurity]_vars

(***************************************************************************)
(* SpecQueueDebug: the build with U_CFG_QUEUE_DEBUG.  The main task makes  *)
(* one queue and sends to it, and to a null handle and to a handle that is *)
(* no queue; the second task receives.  A task in uPortTaskBlock() gets    *)
(* the processor again: the kernel's delay list wakes it.                  *)
(***************************************************************************)
NextQueueDebug ==
    \/ uPortTaskCreate(MainTask, ValidPtr, U_CFG_OS_PRIORITY_MIN, ValidPtr)
    \/ uPortTaskCreate_inc(MainTask)
    \/ NoObject /\ \E len \in 1..MaxLen : uPortQueueCreate(MainTask, len, ValidPtr)
    \/ uPortQueueCreate_inc(MainTask)
    \/ \E h \in Handles \cup {NULL}, p \in Items \cup {NULL} :
          uPortQueueSend_debug(MainTask, h, p)
    \/ uPortQueueSend_retry(MainTask)
    \/ \E t \in Tasks \ {MainTask}, h \in Handles :
          IsQueue(h) /\ uPortQueueReceive(t, h, ValidPtr)
    \/ \E t \in Tasks \ {MainTask} : uPortQueueReceive_wake(t)

SpecQueueDebug ==
    /\ InitUse
    /\ [][NextQueueDebug]_vars
    /\ WF_vars(uPortQueueSend_retry(MainTask))

(***************************************************************************)
(* THE MUTEX DEBUG BUILD.  With U_CFG_MUTEX_DEBUG defined the five mutex   *)
(* functions of u_port_os.c are compiled under their names with an         *)
(* underscore before them, and the public names are those of the mutex     *)
(* debug layer, which notes who is waiting on what and calls the           *)
(* underscore version.  The call of a task goes through three steps: the   *)
(* layer is entered and notes the call, the layer calls the                *)
(* implementation, which runs as in the plain build, and once that has     *)
(* returned the layer drops its note and returns the same value.  The      *)
(* return of the implementation and the return of the layer are one return *)
(* to the caller: no other step is taken between them.                     *)
(***************************************************************************)
\* Mutant: the layer passes a try-lock on as a lock.
MTX_FN_LockForTryLock(t, site) ==
    CASE site.op = "MutexCreate" -> uPortMutexCreate(t, site.p)
      [] site.op = "MutexDelete" -> uPortMutexDelete(t, site.h)
      [] site.op = "MutexLock" -> uPortMutexLock(t, site.h)
      [] site.op = "MutexTryLock" -> uPortMutexLock(t, site.h)
      [] site.op = "MutexUnlock" -> uPortMutexUnlock(t, site.h)
      [] OTHER -> FALSE

\* MTX_FN(name): the implementation in u_port_os.c of the mutex function
\* called at site, whatever name the build gives it.
MTX_FN(t, site) ==
    CASE site.op = "MutexCreate" -> uPortMutexCreate(t, site.p)
      [] site.op = "MutexDelete" -> uPortMutexDelete(t, site.h)
      [] site.op = "MutexLock" -> uPortMutexLock(t, site.h)
      [] site.op = "MutexTryLock" -> uPortMutexTryLock(t, site.h, site.a)
      [] site.op = "MutexUnlock" -> uPortMutexUnlock(t, site.h)
      [] OTHER -> FALSE

\* The calls of the mutex functions a task can make.
CallSites ==
    {[NoCallSite EXCEPT !.op = "MutexCreate", !.p = p] : p \in Pointers}
    \cup {[NoCallSite EXCEPT !.op = op, !.h = h] :
             op \in {"MutexDelete", "MutexLock", "MutexUnlock"},
             h \in Handles \cup {NULL}}
    \cup {[NoCallSite EXCEPT !.op = "MutexTryLock", !.h = h, !.a = a] :
             h \in Handles \cup {NULL}, a \in Waits}

\* What an implementation does after its first step, and the creation of
\* the second task by the main task.
MutexSteps(t) ==
    \/ uPortMutexCreate_inc(t)
    \/ uPortMutexDelete_dec(t)
    \/ uPortMutexLock_wake(t)
    \/ uPortMutexTryLock_wake(t)
    \/ uPortMutexTryLock_timeout(t)
    \/ uPortTaskCreate(t, ValidPtr, U_CFG_OS_PRIORITY_MIN, ValidPtr)
    \/ uPortTaskCreate_inc(t)

\* The public function of the debug build is entered: the layer notes the
\* call.
uMutexDebug(t, site) ==
    /\ CanCall(t)
    /\ mtx[t] = NoCallSite
    /\ mtx' = [mtx EXCEPT ![t] = site]
    /\ last' = NoCall
    /\ UNCHANGED <<gResourceAllocCount, kObj, pc, cur, crashed, kCreated,
                   kDestroyed, nCreateOk, nDestroyOk, nSelfDel, log, now, cfg,
                   wd, sec>>

\* The layer calls the underscore version.
uMutexDebug_call(t) ==
    /\ mtx[t] # NoCallSite
    /\ last.by # t
    /\ MTX_FN(t, mtx[t])

\* The underscore version has returned: the layer returns its value.
uMutexDebug_ret(t) ==
    /\ mtx[t] # NoCallSite
    /\ last.by = t
    /\ mtx' = [mtx EXCEPT ![t] = NoCallSite]
    /\ UNCHANGED <<gResourceAllocCount, kObj, pc, cur, last, crashed,
                   kCreated, kDestroyed, nCreateOk, nDestroyOk, nSelfDel, log,
                   now, cfg, wd, sec>>

NextMutexDebug ==
    \/ \E t \in Tasks : uMutexDebug_ret(t)
    \/ /\ \A t \in Tasks : last.by = t => mtx[t] = NoCallSite
       /\ \E t \in Tasks :
              \/ \E site \in CallSites : uMutexDebug(t, site)
              \/ uMutexDebug_call(t)
              \/ MutexSteps(t)

SpecMutexDebug == InitUse /\ [][NextMutexDebug]_vars

(***************************************************************************)
(* Vocabulary of the properties.                                           *)
(***************************************************************************)
\* A call returned in the step just taken.
Returned == last.op # "none"
\* The positions of a create or destroy between its kernel call and its
\* update of the counter.
LifePcs == {"TaskCreate_inc", "TaskDelete_kill", "QueueCreate_inc",
            "QueueDelete_dec", "MutexCreate_inc", "MutexDelete_dec",
            "SemaphoreCreate_inc", "SemaphoreDelete_dec", "TimerCreate_ret",
            "TimerDelete_ret", "crashed"}
Settled == \A t \in Tasks : pc[t] \notin LifePcs
QueueFamilyDeletes == {"QueueDelete", "MutexDelete", "SemaphoreDelete"}

(***************************************************************************)
(* C1 (under SpecSeq).  Calls made one after the other: when a call has    *)
(* just returned, the counter equals the number of create calls that       *)
(* returned success minus the number of destroy calls that returned        *)
(* success.                                                                *)
(* Stated as in the claim, this fails: uPortTaskDelete(NULL) decrements    *)
(* the counter and never returns.                                          *)
(***************************************************************************)
C1_CounterIsReturnedCreatesMinusDestroys ==
    Returned => gResourceAllocCount = nCreateOk - nDestroyOk

\* C1 as amended: the destroys counted are those that returned success
\* together with the uPortTaskDelete(NULL) calls that deleted their caller.
C1_CounterCountsSelfDeletes ==
    Returned => gResourceAllocCount = nCreateOk - (nDestroyOk + nSelfDel)

C1_Witness ==
    /\ Returned
    /\ last.op = "ResourceAllocCount"
    /\ nCreateOk >= 1 /\ nDestroyOk >= 1 /\ nSelfDel >= 1
    /\ last.ret = nCreateOk - (nDestroyOk + nSelfDel)

C3_DeadHandleIsRejected ==
    (Returned /\ last.op \in QueueFamilyDeletes \cup {"TimerDelete"}
              /\ ~last.live) =>
        (last.ret = U_ERROR_COMMON_INVALID_PARAMETER /\ last.delta = 0)

(***************************************************************************)
(* C4.  A create that does not return success leaves the counter as it     *)
(* was, over all the steps of the call; one that returns success adds      *)
(* exactly one.                                                            *)
(***************************************************************************)
C4_CreateCountsOnSuccessOnly ==
    (Returned /\ last.op \in CreateOps) =>
        last.delta = IF last.ret = U_ERROR_COMMON_SUCCESS THEN 1 ELSE 0

\* A create whose kernel allocation failed, with objects already counted.
C4_Witness ==
    /\ Returned /\ last.op \in CreateOps
    /\ last.kc /\ last.ret = U_ERROR_COMMON_PLATFORM
    /\ last.delta = 0 /\ gResourceAllocCount = 2

(***************************************************************************)
(* C5.  uPortTaskCreate() with well-formed parameters returns success or   *)
(* Platform, never Invalid Parameter.                                      *)
(* This fails: errorCode is not set to Platform before xTaskCreate().      *)
(***************************************************************************)
C5_KernelFailureIsPlatform ==
    (Returned /\ last.op = "TaskCreate"
              /\ last.f # NULL /\ last.p # NULL
              /\ last.a >= U_CFG_OS_PRIORITY_MIN
              /\ last.a <= U_CFG_OS_PRIORITY_MAX) =>
        last.ret \in {U_ERROR_COMMON_SUCCESS, U_ERROR_COMMON_PLATFORM}

(***************************************************************************)
(* C6.  uPortTaskCreate() with a null entry function, a null output        *)
(* pointer or a priority outside [U_CFG_OS_PRIORITY_MIN,                   *)
(* U_CFG_OS_PRIORITY_MAX] returns Invalid Parameter without calling the    *)
(* kernel or changing the counter; with the other parameters non-null, a   *)
(* priority equal to either bound reaches the kernel.                      *)
(***************************************************************************)
C6_TaskCreateRejects ==
    (Returned /\ last.op = "TaskCreate") =>
        /\ (\/ last.f = NULL \/ last.p = NULL
            \/ last.a < U_CFG_OS_PRIORITY_MIN
            \/ last.a > U_CFG_OS_PRIORITY_MAX) =>
              /\ last.ret = U_ERROR_COMMON_INVALID_PARAMETER
              /\ ~last.kc /\ last.delta = 0 /\ last.out = NULL
        /\ (/\ last.f # NULL /\ last.p # NULL
            /\ last.a \in {U_CFG_OS_PRIORITY_MIN, U_CFG_OS_PRIORITY_MAX}) =>
              last.kc

\* A priority one above the maximum is rejected while a task created at a
\* bound is running.
C6_Witness ==
    /\ Returned /\ last.op = "TaskCreate"
    /\ last.f # NULL /\ last.p # NULL
    /\ last.a = U_CFG_OS_PRIORITY_MAX + 1
    /\ last.ret = U_ERROR_COMMON_INVALID_PARAMETER
    /\ pc[1] = "idle" /\ pc[2] = "idle" /\ gResourceAllocCount = 1

(***************************************************************************)
(* C7.  uPortTaskDelete() with a non-null handle returns Invalid           *)
(* Parameter, deletes neither the task named nor the caller, and leaves    *)
(* the counter unchanged: every uPortTaskDelete() that goes on to the      *)
(* kernel was given NULL, and every one that returns was given a non-null  *)
(* handle and rejected it.                                                 *)
(***************************************************************************)
C7_TaskDeleteRejectsNonNull ==
    /\ \A t \in Tasks : pc[t] = "TaskDelete_kill" => cur[t].h = NULL
    /\ (Returned /\ last.op = "TaskDelete") =>
           /\ last.h # NULL
           /\ last.ret = U_ERROR_COMMON_INVALID_PARAMETER
           /\ ~last.kc /\ last.delta = 0
           /\ pc[last.by] = "idle"
           /\ last.live => pc[last.h] # "dead"

\* The handle of another task that is alive.
C7_Witness ==
    /\ Returned /\ last.op = "TaskDelete"
    /\ last.live /\ last.h # last.by
    /\ last.ret = U_ERROR_COMMON_INVALID_PARAMETER


(***************************************************************************)
(* C8 (SpecSem): uPortSemaphoreCreate returns Invalid Parameter, creates   *)
(* nothing and leaves the counter unchanged whenever limit is 0,           *)
(* initialCount is greater than limit or the output pointer is null; for   *)
(* every limit >= 1 and initialCount in 0..limit with a pointer it calls   *)
(* the kernel allocation.  In the record of the call, p is the output      *)
(* pointer, a the initial count and b the limit.                           *)
(***************************************************************************)
C8_SemaphoreCreateRejects ==
    (Returned /\ last.op = "SemaphoreCreate") =>
        /\ (last.b = 0 \/ last.a > last.b \/ last.p = NULL) =>
              /\ last.ret = U_ERROR_COMMON_INVALID_PARAMETER
              /\ ~last.kc
              /\ last.out = NULL
              /\ last.delta = 0
        /\ (last.p # NULL /\ last.b >= 1 /\ last.a \in 0..last.b) => last.kc

\* A create with initialCount = limit + 1 returned: nothing exists.
C8_Witness ==
    /\ Returned
    /\ last.op = "SemaphoreCreate"
    /\ last.p # NULL
    /\ last.b = MaxLen
    /\ last.a = last.b + 1
    /\ last.ret = U_ERROR_COMMON_INVALID_PARAMETER
    /\ \A h \in Handles : ~Live(h)
    /\ gResourceAllocCount = 0

(***************************************************************************)
(* C9 (SpecSem): for a semaphore created with initialCount = k <= limit    *)
(* and used by one task, of the zero-wait uPortSemaphoreTryTake calls that *)
(* open its record exactly the first k return success and the (k+1)th      *)
(* returns Timeout; when one uPortSemaphoreGive follows these k+1 calls,   *)
(* the next zero-wait try-take succeeds and the one after it times out.    *)
(***************************************************************************)
ZeroWaitTryTake(e) == e.op = "SemaphoreTryTake" /\ e.w = 0

OpensWithTryTakes(lg, n) ==
    /\ Len(lg) >= n
    /\ \A j \in 1..n : ZeroWaitTryTake(lg[j])

C9_TryTakeCountsTokens ==
    \A h \in Handles :
        kObj[h].kind = "sem" =>
            LET k == kObj[h].init
                lg == log[h]
            IN /\ \A i \in 1..Len(lg) :
                      OpensWithTryTakes(lg, i) =>
                          lg[i].ret = IF i <= k THEN U_ERROR_COMMON_SUCCESS
                                      ELSE U_ERROR_COMMON_TIMEOUT
               /\ (/\ OpensWithTryTakes(lg, k + 1)
                   /\ Len(lg) >= k + 2
                   /\ lg[k + 2].op = "SemaphoreGive") =>
                      /\ lg[k + 2].ret = U_ERROR_COMMON_SUCCESS
                      /\ (Len(lg) >= k + 3 /\ ZeroWaitTryTake(lg[k + 3])) =>
                             lg[k + 3].ret = U_ERROR_COMMON_SUCCESS
                      /\ (/\ Len(lg) >= k + 4
                          /\ ZeroWaitTryTake(lg[k + 3])
                          /\ ZeroWaitTryTake(lg[k + 4])) =>
                             lg[k + 4].ret = U_ERROR_COMMON_TIMEOUT

\* The whole scenario has run on a semaphore created with MaxLen tokens.
C9_Witness ==
    \E h \in Handles :
        /\ kObj[h].kind = "sem"
        /\ kObj[h].init = MaxLen
        /\ Len(log[h]) = MaxLen + 4
        /\ OpensWithTryTakes(log[h], MaxLen + 1)
        /\ log[h][MaxLen + 1].ret = U_ERROR_COMMON_TIMEOUT
        /\ log[h][MaxLen + 2].op = "SemaphoreGive"
        /\ ZeroWaitTryTake(log[h][MaxLen + 3])
        /\ ZeroWaitTryTake(log[h][MaxLen + 4])
        /\ log[h][MaxLen + 4].ret = U_ERROR_COMMON_TIMEOUT
        /\ Returned
        /\ last.op = "SemaphoreTryTake"


(***************************************************************************)
(* C10 (SpecQueue): for a queue created with capacity c, the uPortQueueSend *)
(* calls that complete before any receive are at most c, none of them      *)
(* blocked, and uPortQueueGetFree after c of them returns 0; no            *)
(* uPortQueueSend ever completes while the queue holds c items that no     *)
(* receive has removed, none completes with anything but success, and a    *)
(* sender blocked on the full queue returns success once a receive has     *)
(* made room, as long as no task brings the system down by handing the     *)
(* kernel a handle that is no queue.                                       *)
(***************************************************************************)
CountOf(lg, n, op) == Cardinality({j \in 1..n : lg[j].op = op})

C10_SendsFillTheQueue ==
    \A h \in Handles :
        kObj[h].kind = "queue" =>
            LET c == kObj[h].cap
                lg == log[h]
            IN \A i \in 1..Len(lg) :
                  LET sent == CountOf(lg, i, "QueueSend")
                      received == CountOf(lg, i, "QueueReceive")
                  IN /\ sent <= c + received
                     /\ lg[i].op = "QueueSend" =>
                            /\ lg[i].ret = U_ERROR_COMMON_SUCCESS
                            /\ received = 0 => lg[i].w = 0
                     /\ (/\ lg[i].op = "QueueGetFree"
                         /\ sent = c
                         /\ received = 0) => lg[i].ret = 0

BlockedWithRoom(t) ==
    /\ pc[t] = "QueueSend_wait"
    /\ kObj[cur[t].h].count < kObj[cur[t].h].cap

SendReturnedSuccess(t) ==
    /\ last.op = "QueueSend"
    /\ last.by = t
    /\ last.b = 1
    /\ last.ret = U_ERROR_COMMON_SUCCESS

C10_SendBlocksUntilReceive ==
    /\ []C10_SendsFillTheQueue
    /\ \A t \in Tasks :
           BlockedWithRoom(t) ~> (SendReturnedSuccess(t) \/ crashed)

\* MaxLen sends filled the queue, no slot was free, the next send blocked
\* and has returned after the receive.
C10_Witness ==
    \E h \in Handles :
        /\ kObj[h].kind = "queue"
        /\ kObj[h].cap = MaxLen
        /\ Len(log[h]) = MaxLen + 3
        /\ \A i \in 1..MaxLen : log[h][i].op = "QueueSend"
        /\ log[h][MaxLen + 1].op = "QueueGetFree"
        /\ log[h][MaxLen + 1].ret = 0
        /\ log[h][MaxLen + 2].op = "QueueReceive"
        /\ log[h][MaxLen + 3].op = "QueueSend"
        /\ log[h][MaxLen + 3].w = 1
        /\ SendReturnedSuccess(MainTask)
        /\ kObj[h].count = MaxLen

(***************************************************************************)
(* C11 (under SpecUse).  A try operation that returns while its object     *)
(* has nothing to give (uPortQueueTryReceive() on an empty queue,          *)
(* uPortMutexTryLock() on a held mutex, uPortSemaphoreTryTake() on a       *)
(* semaphore at zero) returns U_ERROR_COMMON_TIMEOUT, and the step in      *)
(* which it returns changes nothing in the kernel's objects: the queue's   *)
(* items and free slots, the mutex's holder and the semaphore's count are  *)
(* what they were.                                                         *)
(***************************************************************************)
TryOps == {"QueueTryReceive", "MutexTryLock", "SemaphoreTryTake"}
\* The object the call c is made on has nothing for it.
NothingToTake(c) ==
    /\ c.kc
    /\ IF c.op = "QueueTryReceive" THEN IsQueue(c.h) ELSE IsSemaphore(c.h)
    /\ kObj[c.h].count = 0

C11_TryOnNothingTimesOut ==
    [][(Returned' /\ last'.op \in TryOps /\ NothingToTake(last'))
         => (last'.ret = U_ERROR_COMMON_TIMEOUT /\ kObj' = kObj)]_vars

\* A receive that waited a tick on an empty queue has timed out.
C11_Witness ==
    /\ Returned /\ last.op = "QueueTryReceive" /\ last.b > 0
    /\ last.ret = U_ERROR_COMMON_TIMEOUT
    /\ IsQueue(last.h) /\ kObj[last.h].items = <<>>

(***************************************************************************)
(* C12 (under SpecTime).  When uPortQueueTryReceive(queue, T, ...) on an   *)
(* empty queue returns U_ERROR_COMMON_TIMEOUT, at least T milliseconds of  *)
(* kernel time have passed since the call.                                 *)
(***************************************************************************)
C12_TimeoutNotBeforeWait ==
    (/\ Returned /\ last.op = "QueueTryReceive" /\ last.kc /\ last.live
     /\ last.ret = U_ERROR_COMMON_TIMEOUT)
        => now - last.t0 >= last.a

(***************************************************************************)
(* C13 (under SpecUse).  uPortQueueSendIrq() on a full queue and           *)
(* uPortSemaphoreGiveIrq() on a semaphore at its limit return              *)
(* U_ERROR_COMMON_PLATFORM in the step in which they are called, and that  *)
(* step changes nothing in the kernel's objects; no call of either is ever *)
(* left waiting.                                                           *)
(***************************************************************************)
IrqOps == {"QueueSendIrq", "SemaphoreGiveIrq"}
\* The object the call c is made on has no room for what c brings.
NoRoom(c) ==
    /\ c.kc
    /\ IF c.op = "QueueSendIrq" THEN IsQueue(c.h) ELSE IsSemaphore(c.h)
    /\ kObj[c.h].count = kObj[c.h].cap

C13_IrqOnFullIsPlatform ==
    /\ [](\A t \in Tasks : cur[t].op \in IrqOps => pc[t] = "crashed")
    /\ [][(Returned' /\ last'.op \in IrqOps /\ NoRoom(last'))
            => (last'.ret = U_ERROR_COMMON_PLATFORM /\ kObj' = kObj)]_vars

\* A send from an interrupt has found the queue full.
C13_Witness ==
    /\ Returned /\ last.op = "QueueSendIrq" /\ NoRoom(last)
    /\ last.ret = U_ERROR_COMMON_PLATFORM

(***************************************************************************)
(* C14 (under SpecUse).  Apart from uPortMutexUnlock(), an operation whose *)
(* kernel call reported failure does not return U_ERROR_COMMON_SUCCESS;    *)
(* uPortSemaphoreGive() on a semaphore at its limit is such a call.        *)
(***************************************************************************)
C14_KernelFailureIsNotSuccess ==
    (Returned /\ last.kfail /\ last.op # "MutexUnlock")
        => last.ret # U_ERROR_COMMON_SUCCESS

(***************************************************************************)
(* C15 (under SpecUse).  As stated: no operation that waits for ever       *)
(* returns U_ERROR_COMMON_TIMEOUT.  uPortQueuePeek() does, whenever its    *)
(* kernel call fails.                                                      *)
(***************************************************************************)
IndefiniteOps == {"QueueSend", "QueueReceive", "QueuePeek", "MutexLock",
                  "SemaphoreTake", "TimerStart", "TimerStop", "TimerChange"}

C15_NoIndefiniteWaitTimesOut ==
    (Returned /\ last.op \in IndefiniteOps)
        => last.ret # U_ERROR_COMMON_TIMEOUT

(***************************************************************************)
(* C15, amended (under SpecUse).  Of the operations that wait for ever,    *)
(* only uPortQueuePeek() returns U_ERROR_COMMON_TIMEOUT, and it does so    *)
(* exactly when its kernel call fails; the only other operations that      *)
(* return it are those that take a wait from the caller.                   *)
(***************************************************************************)
C15_OnlyPeekAndTriesTimeOut ==
    Returned =>
        /\ last.ret = U_ERROR_COMMON_TIMEOUT
              => last.op \in TryOps \cup {"QueuePeek"}
        /\ last.op = "QueuePeek"
              => (last.ret = U_ERROR_COMMON_TIMEOUT <=> last.kfail)

\* A receive that waits for ever blocked on an empty queue and came back
\* with an item.
C15_Witness ==
    /\ Returned /\ last.op = "QueueReceive" /\ last.b = portMAX_DELAY
    /\ last.ret = U_ERROR_COMMON_SUCCESS /\ last.out # NULL

(***************************************************************************)
(* C16 (under SpecUse).  uPortQueuePeek() that returns while its queue     *)
(* holds an item returns success and the item at the head, and the step    *)
(* changes nothing in the queue: its items and its free slots are what     *)
(* they were.  A receive that succeeds returns the item then at the head,  *)
(* so the next one returns what the peek showed.  A peek whose kernel call *)
(* failed returns U_ERROR_COMMON_TIMEOUT.                                  *)
(***************************************************************************)
ReceiveOps == {"QueueReceive", "QueueTryReceive"}
\* The call c has come back from a queue that held an item.
CameBackFromQueue(c) == c.kc /\ IsQueue(c.h) /\ kObj[c.h].count > 0

C16_PeekShowsHeadAndLeavesIt ==
    /\ []((Returned /\ last.op = "QueuePeek" /\ last.kfail)
             => last.ret = U_ERROR_COMMON_TIMEOUT)
    /\ [][(Returned' /\ last'.op = "QueuePeek" /\ CameBackFromQueue(last'))
            => /\ last'.ret = U_ERROR_COMMON_SUCCESS
               /\ last'.out = Head(kObj[last'.h].items)
               /\ kObj' = kObj]_vars
    /\ [][(/\ Returned' /\ last'.op \in ReceiveOps /\ CameBackFromQueue(last')
            /\ last'.ret = U_ERROR_COMMON_SUCCESS)
            => last'.out = Head(kObj[last'.h].items)]_vars

\* A peek has shown the first of two different items, both still queued.
C16_Witness ==
    /\ Returned /\ last.op = "QueuePeek" /\ last.ret = U_ERROR_COMMON_SUCCESS
    /\ IsQueue(last.h) /\ Len(kObj[last.h].items) = MaxLen
    /\ last.out = Head(kObj[last.h].items)
    /\ last.out # kObj[last.h].items[MaxLen]

(***************************************************************************)
(* C17 (under SpecUse).  When uPortQueueSendIrq() or                       *)
(* uPortSemaphoreGiveIrq() returns, taskYIELD() has been called if and     *)
(* only if the kernel call set the higher-priority-task-woken flag,        *)
(* whatever the kernel call returned; a call rejected with                 *)
(* U_ERROR_COMMON_INVALID_PARAMETER made no kernel call and no             *)
(* taskYIELD().                                                            *)
(***************************************************************************)
C17_YieldFollowsWokenFlag ==
    (Returned /\ last.op \in IrqOps)
        => /\ last.yielded <=> last.woken
           /\ last.ret = U_ERROR_COMMON_INVALID_PARAMETER
                 => (~last.kc /\ ~last.yielded)

\* A send from an interrupt readied the task waiting on the queue, and the
\* switch to it was asked for.
C17_Witness ==
    /\ Returned /\ last.op = "QueueSendIrq" /\ IsQueue(last.h)
    /\ last.ret = U_ERROR_COMMON_SUCCESS
    /\ last.woken /\ last.yielded
    /\ WaitingToTake(last.h) # {}

(***************************************************************************)
(* C18 (under SpecUse).  uPortQueueGetFree() returns                       *)
(* U_ERROR_COMMON_INVALID_PARAMETER for the null handle; for the handle of *)
(* a queue it returns the queue's capacity less the number of items it     *)
(* holds, a number from zero to the capacity, whatever sends, receives and *)
(* peeks came before; and the step in which it returns changes nothing in  *)
(* the kernel's objects.                                                   *)
(***************************************************************************)
C18_GetFreeIsRoomLeft ==
    [][(Returned' /\ last'.op = "QueueGetFree")
         => /\ kObj' = kObj
            /\ last'.h = NULL => last'.ret = U_ERROR_COMMON_INVALID_PARAMETER
            /\ IsQueue(last'.h)
                  => /\ last'.ret = kObj[last'.h].cap - Len(kObj[last'.h].items)
                     /\ last'.ret \in 0..kObj[last'.h].cap]_vars

\* The free slots of a queue that is neither empty nor full were asked for.
C18_Witness ==
    /\ Returned /\ last.op = "QueueGetFree" /\ IsQueue(last.h)
    /\ Len(kObj[last.h].items) > 0
    /\ last.ret = kObj[last.h].cap - Len(kObj[last.h].items)
    /\ last.ret > 0

(***************************************************************************)
(* C19 (under SpecUse).  When uPortMutexUnlock() returns, it returns       *)
(* success for every handle but the null one, whether the mutex is held by *)
(* the caller, held by another task or not held, and                       *)
(* U_ERROR_COMMON_INVALID_PARAMETER for the null handle and for no other.  *)
(* (Where the kernel is built with its assertions, giving a mutex held by  *)
(* another task stops the system inside the kernel, and nothing is         *)
(* returned.)                                                              *)
(***************************************************************************)
C19_UnlockSucceedsUnlessNull ==
    (Returned /\ last.op = "MutexUnlock")
        => last.ret = IF last.h = NULL THEN U_ERROR_COMMON_INVALID_PARAMETER
                                       ELSE U_ERROR_COMMON_SUCCESS

\* A mutex that nobody held was unlocked: the kernel refused, and the call
\* returned success.
C19_Witness ==
    /\ Returned /\ last.op = "MutexUnlock" /\ last.kfail
    /\ IsSemaphore(last.h) /\ kObj[last.h].kind = "mutex"
    /\ kObj[last.h].holder = NULL
    /\ last.ret = U_ERROR_COMMON_SUCCESS

(***************************************************************************)
(* C20 (under SpecTimer).  uPortTimerStart(), uPortTimerStop() and         *)
(* uPortTimerChange() hand every handle, the null one too, to the kernel;  *)
(* they return success if the kernel acknowledged the command and          *)
(* U_ERROR_COMMON_PLATFORM if it did not, and nothing else; and they leave *)
(* the resource counter as it was.                                         *)
(***************************************************************************)
TimerUseOps == {"TimerStart", "TimerStop", "TimerChange"}

C20_TimerUseReportsTheKernel ==
    (Returned /\ last.op \in TimerUseOps)
        => /\ last.kc
           /\ last.ret = IF last.kfail THEN U_ERROR_COMMON_PLATFORM
                                        ELSE U_ERROR_COMMON_SUCCESS
           /\ last.delta = 0

\* The period of a timer was changed to one tick: the kernel acknowledged
\* and the timer runs with the new period.
C20_Witness ==
    /\ Returned /\ last.op = "TimerChange" /\ IsTimer(last.h)
    /\ last.ret = U_ERROR_COMMON_SUCCESS
    /\ kObj[last.h].cap = last.b /\ last.b > 0 /\ kObj[last.h].count > 0

(***************************************************************************)
(* C21 (under SpecSeq).  The step in which uPortTimerCreate() returns adds *)
(* one to the counter if uPortPrivateTimerCreate() returned zero and       *)
(* leaves it alone otherwise; the step in which uPortTimerDelete() returns *)
(* takes one off if uPortPrivateTimerDelete() returned zero and leaves it  *)
(* alone otherwise; and either returns what the private function          *)
(* returned.                                                               *)
(***************************************************************************)
\* The task t returns from the call it made at position at.
ReturnsFrom(t, at) == pc[t] = at /\ pc'[t] = "idle"

C21_TimerCountsOnZeroOnly ==
    [][\A t \in Tasks :
         /\ ReturnsFrom(t, "TimerCreate_ret")
               => /\ last'.ret = cur[t].ret
                  /\ CountStep = IF cur[t].ret = 0 THEN 1 ELSE 0
         /\ ReturnsFrom(t, "TimerDelete_ret")
               => /\ last'.ret = cur[t].ret
                  /\ CountStep = IF cur[t].ret = 0 THEN -1 ELSE 0]_vars

\* A timer was deleted and the counter went down by one.
C21_Witness ==
    /\ Returned /\ last.op = "TimerDelete" /\ last.ret = 0
    /\ last.delta = -1 /\ last.live

(***************************************************************************)
(* C22 (under SpecWatchdog).  A poll of the watchdog emits one report if   *)
(* the value it samples equals the value sampled at the poll before, and   *)
(* none otherwise; no other step emits a report.  So a poll that follows   *)
(* one change of the counter, up, down or from one end of the 32-bit range *)
(* to the other, emits none, and over n check periods in a row in which    *)
(* the counter does not change exactly n reports are emitted.  (A counter  *)
(* that is moved and moved back between two polls is sampled with the same *)
(* value and counts as not changed.)                                       *)
(***************************************************************************)
C22_ReportIffSampleUnchanged ==
    /\ [](wd.runReports = wd.run)
    /\ [][LET Polled == wd'.polls = wd.polls + 1
               Reported == wd'.reports - wd.reports
           IN /\ Polled => Reported = IF wd.prev = <<wd.counter>> THEN 1 ELSE 0
              /\ (Polled /\ wd.moves = 1) => Reported = 0
              /\ ~Polled => Reported = 0]_vars

\* The counter wrapped from the largest value to the smallest and stayed
\* there for two check periods: two reports.
C22_Witness ==
    /\ wd.polls = MaxPolls /\ wd.run = 2 /\ wd.reports = 2
    /\ wd.prev = <<INT32_MIN>>

(***************************************************************************)
(* C23 (under SpecWatchdog).  uDebugUtilsInitInactivityDetector() called   *)
(* with a null pointer returns an error, calls nothing and leaves no       *)
(* watchdog task; called with a counter it returns what uPortTaskCreate()  *)
(* returned, so the kind of a failure to create the task is the kind the   *)
(* caller sees; and it returns zero exactly when the watchdog task exists. *)
(***************************************************************************)
C23_InitReportsTaskCreate ==
    /\ [](last.op = "InitInactivityDetector" =>
            /\ last.p = NULL => (last.ret < 0 /\ ~last.kc /\ kCreated = 0)
            /\ last.ret = 0 <=> wd.task # NULL
            /\ wd.task # NULL => pc[wd.task] # "dead")
    /\ [][(last'.op = "InitInactivityDetector" /\ last'.p # NULL)
            => (last.op = "TaskCreate" /\ last'.ret = last.ret)]_vars

\* The watchdog task could not be created: the initialisation failed with
\* the code of uPortTaskCreate() and there is no watchdog.
C23_Witness ==
    /\ last.op = "InitInactivityDetector" /\ last.kc
    /\ last.ret = TaskCreateKernelFailCode
    /\ wd.task = NULL /\ wd.p # NULL

C25_DebugSendRetriesUntilEnqueued ==
    /\ []((last.op = "QueueSend" /\ last.h # NULL /\ last.p # NULL) =>
             last.ret = U_ERROR_COMMON_SUCCESS)
    /\ [](\A t \in Tasks : pc[t] = "QueueSend_block" =>
             (cur[t].b >= 1 /\ cur[t].a = U_CFG_OS_YIELD_MS))
    /\ [][\A t \in Tasks :
             /\ (pc'[t] = "QueueSend_block" /\ cur'[t].b # cur[t].b
                    /\ IsQueue(cur'[t].h)) =>
                    (kObj' = kObj /\ kObj[cur'[t].h].count = kObj[cur'[t].h].cap)
             /\ (last'.op = "QueueSend" /\ last'.by = t /\ last'.p # NULL
                    /\ IsQueue(last'.h)) =>
                    /\ kObj[last'.h].count < kObj[last'.h].cap
                    /\ kObj' = [kObj EXCEPT
                                   ![last'.h].items = Append(@, last'.p),
                                   ![last'.h].count = @ + 1]]_vars
    /\ \A h \in Handles :
          (pc[MainTask] = "QueueSend_block" /\ cur[MainTask].h = h
              /\ IsQueue(h) /\ kObj[h].count < kObj[h].cap)
          ~> (last.op = "QueueSend" /\ last.by = MainTask /\ last.h = h
              /\ last.ret = U_ERROR_COMMON_SUCCESS)

\* The send found the queue full twice, the second task then took an item,
\* and the send has returned with its item at the tail of the queue.
C25_Witness ==
    /\ last.op = "QueueSend" /\ last.b = MaxRetries
    /\ last.ret = U_ERROR_COMMON_SUCCESS
    /\ IsQueue(last.h) /\ kObj[last.h].count = kObj[last.h].cap
    /\ kObj[last.h].items[kObj[last.h].count] = last.p

(***************************************************************************)
(* C26 (under SpecSecurity).  uSecurityC2cOpen() called while a session is *)
(* open returns success and changes nothing: the session stays open with   *)
(* the keys it was opened with.  uSecurityC2cClose() called while no       *)
(* session is open returns success and changes nothing.  The AT traffic    *)
(* is encrypted exactly while a session is open, from the successful       *)
(* uSecurityC2cOpen() that opened it, with the keys given to that call,    *)
(* until a uSecurityC2cClose() that returns success or a power-off or      *)
(* reboot of the module.                                                   *)
(***************************************************************************)
C26_OpenSessionStaysAsOpened ==
    /\ [](sec.encrypted <=> sec.open)
    /\ [][/\ (last'.op = "C2cOpen" /\ sec.open) =>
               (last'.ret = U_ERROR_COMMON_SUCCESS /\ sec' = sec)
          /\ (last'.op = "C2cClose" /\ ~sec.open) =>
               (last'.ret = U_ERROR_COMMON_SUCCESS /\ sec' = sec)
          /\ (~sec.open /\ sec'.open) =>
               (last'.op = "C2cOpen" /\ last'.ret = U_ERROR_COMMON_SUCCESS
                /\ sec'.keys = last'.a)
          /\ (sec.encrypted /\ sec'.encrypted) => sec'.keys = sec.keys
          /\ (sec.encrypted /\ ~sec'.encrypted) =>
               \/ last'.op = "C2cClose" /\ last'.ret = U_ERROR_COMMON_SUCCESS
               \/ PowerCycle]_vars

\* A session is open and uSecurityC2cOpen() has been called with the keys
\* of the other pairing: it returned success and the session has the keys
\* it was opened with.
C26_Witness ==
    /\ last.op = "C2cOpen" /\ last.ret = U_ERROR_COMMON_SUCCESS
    /\ sec.open /\ sec.encrypted
    /\ sec.keys # last.a

(***************************************************************************)
(* C27 (under SpecSecurity).  uSecuritySealSet() called on a module that   *)
(* is sealed (uSecurityIsSealed() returns true exactly then) returns an    *)
(* error and leaves the seal, and the session, as they were.               *)
(***************************************************************************)
C27_SealingASealedModuleFails ==
    /\ [](last.op = "IsSealed" => (last.ret = 1 <=> sec.sealed))
    /\ [][(last'.op = "SealSet" /\ sec.sealed) =>
              (last'.ret < 0 /\ sec' = sec)]_vars

\* The module is sealed and a uSecuritySealSet() has returned an error.
C27_Witness ==
    /\ last.op = "SealSet" /\ last.ret < 0
    /\ sec.sealed

(***************************************************************************)
(* C28 (under SpecFifo).  A queue is first in, first out, and bounded: the *)
(* items returned by the receives that succeeded (uPortQueueReceive,       *)
(* uPortQueueTryReceive, uPortQueueReceiveIrq), in the order in which they *)
(* returned, followed by the items the queue holds, are the items of the   *)
(* sends that succeeded (uPortQueueSend, uPortQueueSendIrq), in the order  *)
(* in which they returned; so what has been received is a prefix of what   *)
(* has been sent.  The queue never holds more items than the length it     *)
(* was created with, which does not change.                                *)
(***************************************************************************)
C28_ReceivedIsPrefixOfSent ==
    /\ [](\A h \in Handles : IsQueue(h) =>
            LET Sent(e) == /\ e.op \in {"QueueSend", "QueueSendIrq"}
                           /\ e.ret = U_ERROR_COMMON_SUCCESS
                Got(e) == /\ e.op \in {"QueueReceive", "QueueTryReceive",
                                        "QueueReceiveIrq"}
                          /\ e.ret = U_ERROR_COMMON_SUCCESS
                sent == SelectSeq(log[h], Sent)
                got == SelectSeq(log[h], Got)
            IN /\ Len(got) <= Len(sent)
               /\ \A i \in 1..Len(got) : got[i].item = sent[i].item
               /\ \A i \in 1..Len(kObj[h].items) :
                      kObj[h].items[i] = sent[Len(got) + i].item
               /\ Len(sent) = Len(got) + Len(kObj[h].items)
               /\ Len(kObj[h].items) = kObj[h].count
               /\ kObj[h].count <= kObj[h].cap)
    /\ [][\A h \in Handles :
             (IsQueue(h) /\ kObj'[h].kind = "queue") =>
                 kObj'[h].cap = kObj[h].cap]_vars

\* Two different items were sent to a queue of two, one from a task and
\* one from an interrupt, and both were received in that order, the first
\* from an interrupt.
C28_Witness ==
    \E h \in Handles :
        /\ IsQueue(h) /\ kObj[h].cap = MaxLen /\ kObj[h].count = 0
        /\ Len(log[h]) = 4
        /\ log[h][1].op = "QueueSend" /\ log[h][2].op = "QueueSendIrq"
        /\ log[h][1].item # log[h][2].item
        /\ log[h][3].op = "QueueReceiveIrq" /\ log[h][4].op = "QueueReceive"
        /\ log[h][3].item = log[h][1].item
        /\ log[h][4].item = log[h][2].item
        /\ \A i \in 1..4 : log[h][i].ret = U_ERROR_COMMON_SUCCESS

(***************************************************************************)
(* C29 (under SpecCount).  The count of a semaphore created with limit L   *)
(* is in 0..L in every state, whatever the tasks do with it, and L does    *)
(* not change.  A give, from a task or from an interrupt, to a semaphore   *)
(* that holds L leaves it holding L; a take or try-take that returns       *)
(* while the semaphore holds nothing has taken nothing and has not         *)
(* succeeded.                                                              *)
(***************************************************************************)
C29_CountStaysWithinLimit ==
    /\ [](\A h \in Handles :
            kObj[h].kind = "sem" => kObj[h].count \in 0..kObj[h].cap)
    /\ [][\A h \in Handles :
             (kObj[h].kind = "sem" /\ kObj'[h].kind = "sem") =>
                 /\ kObj'[h].cap = kObj[h].cap
                 /\ (/\ kObj[h].count = kObj[h].cap
                     /\ last'.op \in {"SemaphoreGive", "SemaphoreGiveIrq"}
                     /\ last'.h = h) =>
                        kObj'[h].count = kObj[h].cap
                 /\ (/\ kObj[h].count = 0
                     /\ last'.op \in {"SemaphoreTake", "SemaphoreTryTake"}
                     /\ last'.h = h) =>
                        /\ kObj'[h].count = 0
                        /\ last'.ret # U_ERROR_COMMON_SUCCESS]_vars

\* The semaphore holds its limit of MaxLen, after a start below it, and
\* the second task has given to it from an interrupt: the kernel refused.
C29_Witness ==
    /\ last.op = "SemaphoreGiveIrq" /\ last.by # MainTask /\ last.kfail
    /\ kObj[last.h].kind = "sem"
    /\ kObj[last.h].cap = MaxLen /\ kObj[last.h].init < MaxLen
    /\ kObj[last.h].count = MaxLen

(***************************************************************************)
(* C30 (under SpecReceive, which is fair to the task that waits).  A task  *)
(* blocked in uPortQueueReceive() leaves the call only in a step that      *)
(* finds an item in the queue, and then with success and with the item at  *)
(* the head; so it does not return while the queue stays empty.  And once  *)
(* there is an item in the queue, after a send that succeeded, the task    *)
(* returns with success unless another receiver empties the queue first.   *)
(***************************************************************************)
C30_BlockedReceiveReturnsWithTheItem ==
    /\ [][\A t \in Tasks :
             (pc[t] = "QueueReceive_wait" /\ pc'[t] # "QueueReceive_wait") =>
                 /\ kObj[cur[t].h].count > 0
                 /\ last'.op = "QueueReceive" /\ last'.by = t
                 /\ last'.ret = U_ERROR_COMMON_SUCCESS
                 /\ last'.out = Head(kObj[cur[t].h].items)
                 /\ kObj'[cur[t].h].items = Tail(kObj[cur[t].h].items)]_vars
    /\ \A t \in Tasks :
          (pc[t] = "QueueReceive_wait" /\ kObj[cur[t].h].count > 0)
          ~> \/ /\ last.op = "QueueReceive" /\ last.by = t
                /\ last.ret = U_ERROR_COMMON_SUCCESS
             \/ pc[t] = "QueueReceive_wait" /\ kObj[cur[t].h].count = 0

\* The second task waited in uPortQueueReceive() on the empty queue, the
\* main task sent the second item from an interrupt, and the second task
\* has returned with it.
C30_Witness ==
    /\ last.op = "QueueReceive" /\ last.by # MainTask
    /\ last.b = portMAX_DELAY
    /\ last.ret = U_ERROR_COMMON_SUCCESS
    /\ last.out = ValidPtr + 1
    /\ kObj[last.h].count = 0

(***************************************************************************)
(* C31 (under SpecReceive).  uPortQueueReceiveIrq() never suspends its     *)
(* caller: it returns in the step in which it is called, and no task is    *)
(* ever found waiting in it.  Called on an empty queue it returns a        *)
(* platform error and leaves the queue empty; called on a queue that holds *)
(* items it returns success with the item at the head and takes that item  *)
(* off the queue.                                                          *)
(***************************************************************************)
C31_ReceiveIrqNeverWaits ==
    /\ [](\A t \in Tasks :
            cur[t].op # "QueueReceiveIrq" /\ pc[t] # "QueueReceiveIrq_wait")
    /\ [][(last'.op = "QueueReceiveIrq" /\ IsQueue(last'.h)) =>
             /\ pc[last'.by] = "idle" /\ pc'[last'.by] = "idle"
             /\ IF kObj[last'.h].count = 0
                THEN /\ last'.ret = U_ERROR_COMMON_PLATFORM
                     /\ kObj' = kObj
                ELSE /\ last'.ret = U_ERROR_COMMON_SUCCESS
                     /\ last'.out = Head(kObj[last'.h].items)
                     /\ kObj' = [kObj EXCEPT
                                    ![last'.h].items = Tail(@),
                                    ![last'.h].count = @ - 1]]_vars

\* uPortQueueReceiveIrq() has been called on an empty queue: a platform
\* error, and the queue is empty.
C31_Witness ==
    /\ last.op = "QueueReceiveIrq" /\ last.kc
    /\ last.ret = U_ERROR_COMMON_PLATFORM
    /\ IsQueue(last.h) /\ kObj[last.h].count = 0
    /\ pc[last.by] = "idle"

(***************************************************************************)
(* uPortTaskBlock(): vTaskDelay(delayMs / portTICK_PERIOD_MS).  The task   *)
(* is off the processor until the kernel has counted that number of ticks; *)
(* with no ticks to count vTaskDelay() comes straight back.  Nothing is    *)
(* returned: ret stays 0.  The milliseconds asked for are in a and the     *)
(* ticks handed to the kernel in b.                                        *)
(***************************************************************************)
\* Mutant: the ticks are the quotient rounded up.
uPortTaskBlock_RoundsUp(t, delayMs) ==
    /\ CanCall(t)
    /\ UNCHANGED gResourceAllocCount
    /\ LET c == Call("TaskBlock", NULL, NULL, NULL, delayMs,
                     (delayMs + cfg.tickMs - 1) \div cfg.tickMs)
       IN IF c.b = 0
          THEN Return(t, [c EXCEPT !.kc = TRUE], 0)
          ELSE Goto(t, [c EXCEPT !.kc = TRUE], "TaskBlock_wait")
    /\ UNCHANGED <<kObj, crashed, kCreated, kDestroyed, nSelfDel, log>>

uPortTaskBlock(t, delayMs) ==
    /\ CanCall(t)
    /\ UNCHANGED gResourceAllocCount
    /\ LET c == Call("TaskBlock", NULL, NULL, NULL, delayMs,
                     delayMs \div cfg.tickMs)
       IN IF c.b = 0
          THEN Return(t, [c EXCEPT !.kc = TRUE], 0)
          ELSE Goto(t, [c EXCEPT !.kc = TRUE], "TaskBlock_wait")
    /\ UNCHANGED <<kObj, crashed, kCreated, kDestroyed, nSelfDel, log>>

\* The kernel has counted the ticks: vTaskDelay() is over.
uPortTaskBlock_ret(t) ==
    /\ At(t, "TaskBlock_wait")
    /\ WaitIsOver(cur[t])
    /\ UNCHANGED gResourceAllocCount
    /\ Return(t, cur[t], 0)
    /\ UNCHANGED <<kObj, crashed, kCreated, kDestroyed, nSelfDel, log>>

(***************************************************************************)
(* SpecTicks: the operations that take milliseconds, with the time         *)
(* followed.  The tick is one millisecond or portTICK_PERIOD_MS; the main  *)
(* task makes one queue, mutex, semaphore or timer and calls the           *)
(* operations of its kind on it with no time, half a tick, one tick and a  *)
(* tick and a half.                                                        *)
(***************************************************************************)
Durations == {0, portTICK_PERIOD_MS \div 2, portTICK_PERIOD_MS,
              portTICK_PERIOD_MS + portTICK_PERIOD_MS \div 2}

NextTicks ==
    \/ NoObject /\ uPortQueueCreate(MainTask, 1, ValidPtr)
    \/ uPortQueueCreate_inc(MainTask)
    \/ NoObject /\ uPortMutexCreate(MainTask, ValidPtr)
    \/ uPortMutexCreate_inc(MainTask)
    \/ NoObject /\ uPortSemaphoreCreate(MainTask, ValidPtr, 1, 1)
    \/ uPortSemaphoreCreate_inc(MainTask)
    \/ NoObject /\ uPortTimerCreate(MainTask, ValidPtr)
    \/ uPortTimerCreate_ret(MainTask)
    \/ \E ms \in Durations :
          \/ uPortTaskBlock(MainTask, ms)
          \/ \E h \in Handles :
                \/ IsQueue(h) /\ uPortQueueTryReceive(MainTask, h, ms, ValidPtr)
                \/ kObj[h].kind = "mutex" /\ uPortMutexTryLock(MainTask, h, ms)
                \/ kObj[h].kind = "sem" /\ uPortSemaphoreTryTake(MainTask, h, ms)
                \/ IsTimer(h) /\ uPortTimerChange(MainTask, h, ms)
    \/ uPortTaskBlock_ret(MainTask)
    \/ uPortQueueTryReceive_timeout(MainTask)
    \/ uPortMutexTryLock_timeout(MainTask)
    \/ uPortSemaphoreTryTake_timeout(MainTask)
    \/ Elapse

SpecTicks == InitTime /\ [][NextTicks]_vars

(***************************************************************************)
(* C32 (under SpecTicks).  uPortTaskBlock(), uPortQueueTryReceive(),       *)
(* uPortMutexTryLock(), uPortSemaphoreTryTake() and uPortTimerChange()     *)
(* hand the kernel the whole number of ticks that fit in the milliseconds  *)
(* they were given: ticks * period <= milliseconds < (ticks + 1) * period, *)
(* so that less than one tick is no tick.  The kernel acts on that         *)
(* number: a wait that ran out, and a block, end no sooner than that many  *)
(* ticks after the tick in which they began, and the timer has that        *)
(* period.  (The durations are not negative.)                              *)
(***************************************************************************)
C32_TicksAreMillisecondsOverThePeriodRoundedDown ==
    (/\ Returned /\ last.kc
     /\ last.op \in {"TaskBlock", "QueueTryReceive", "MutexTryLock",
                     "SemaphoreTryTake", "TimerChange"})
        => /\ last.b \in Nat
           /\ last.b * cfg.tickMs <= last.a
           /\ last.a < (last.b + 1) * cfg.tickMs
           /\ last.a < cfg.tickMs => last.b = 0
           /\ (last.op = "TaskBlock" \/ last.ret = U_ERROR_COMMON_TIMEOUT)
                 => now \div cfg.tickMs >= (last.t0 \div cfg.tickMs) + last.b
           /\ (last.op = "TimerChange" /\ IsTimer(last.h)
               /\ last.ret = U_ERROR_COMMON_SUCCESS)
                 => kObj[last.h].cap = last.b

\* uPortTaskBlock() has returned from a tick and a half of the kernel's
\* ten millisecond tick: one tick was counted.
C32_Witness ==
    /\ last.op = "TaskBlock" /\ last.kc
    /\ cfg.tickMs = portTICK_PERIOD_MS
    /\ last.a = portTICK_PERIOD_MS + portTICK_PERIOD_MS \div 2
    /\ last.b = 1
    /\ now > last.t0

(***************************************************************************)
(* C33 (under SpecQueueDebug).  Built with U_CFG_QUEUE_DEBUG,              *)
(* uPortQueueSend() prints its "queue is full" line at failed attempt x    *)
(* (x counts the failed attempts of the call from 0) when, and only when,  *)
(* x is a multiple of 1000 / U_CFG_OS_YIELD_MS: so it does at the first    *)
(* failed attempt, and the attempt that succeeds prints nothing.  That     *)
(* divisor, as C computes it, is 1 or more for the values 1..1000 of       *)
(* U_CFG_OS_YIELD_MS and for no other of the values tried, which go from   *)
(* below zero to above 1000 (zero cannot be divided by).                   *)
(***************************************************************************)
YieldTimes == (-2 .. 1002) \ {0}

uPortTaskIsThis(t, taskHandle) ==
    /\ CanCall(t)
    /\ UNCHANGED gResourceAllocCount
    /\ Return(t, [Call("TaskIsThis", NULL, NULL, taskHandle, 0, 0)
                     EXCEPT !.kc = TRUE],
              IF taskHandle = t THEN 1 ELSE 0)
    /\ UNCHANGED <<kObj, crashed, kCreated, kDestroyed, nSelfDel, log>>

\* uxTaskGetStackHighWaterMark() of the task named, of the caller if none
\* is named: some number that is not negative.  On a handle that is no
\* task the kernel call may return anything or stop the system.
uPortTaskStackMinFree(t, taskHandle) ==
    /\ CanCall(t)
    /\ UNCHANGED gResourceAllocCount
    /\ LET handle == IF taskHandle = NULL THEN t ELSE taskHandle
           c == [Call("TaskStackMinFree", NULL, NULL, taskHandle, 0, 0)
                    EXCEPT !.kc = TRUE]
       IN IF handle \in Tasks /\ pc[handle] # "dead"
          THEN /\ \E free \in {0, 1} : Return(t, [c EXCEPT !.out = handle], free)
               /\ UNCHANGED <<kObj, crashed, log>>
          ELSE KernelCallOnGarbage(t, c, {0, 1})
    /\ UNCHANGED <<kCreated, kDestroyed, nSelfDel>>

\* Mutant: handing out the task's handle counts as a resource.
uPortTaskGetHandle_Counts(t, pTaskHandle) ==
    /\ CanCall(t)
    /\ LET c == Call("TaskGetHandle", NULL, pTaskHandle, NULL, 0, 0)
       IN IF pTaskHandle # NULL
          THEN /\ gResourceAllocCount' = U_ATOMIC_INCREMENT(gResourceAllocCount)
               /\ Return(t, [c EXCEPT !.kc = TRUE, !.out = t],
                         U_ERROR_COMMON_SUCCESS)
          ELSE /\ UNCHANGED gResourceAllocCount
               /\ Return(t, c, U_ERROR_COMMON_INVALID_PARAMETER)
    /\ UNCHANGED <<kObj, crashed, kCreated, kDestroyed, nSelfDel, log>>

\* *pTaskHandle = xTaskGetCurrentTaskHandle(), if there is a pTaskHandle.
uPortTaskGetHandle(t, pTaskHandle) ==
    /\ CanCall(t)
    /\ UNCHANGED gResourceAllocCount
    /\ LET c == Call("TaskGetHandle", NULL, pTaskHandle, NULL, 0, 0)
       IN IF pTaskHandle # NULL
          THEN Return(t, [c EXCEPT !.kc = TRUE, !.out = t],
                      U_ERROR_COMMON_SUCCESS)
          ELSE Return(t, c, U_ERROR_COMMON_INVALID_PARAMETER)
    /\ UNCHANGED <<kObj, crashed, kCreated, kDestroyed, nSelfDel, log>>

(***************************************************************************)
(* SpecCalls: every use operation, called by the main task with the null   *)
(* handle, the handle of the one object there is and the handle that has   *)
(* no object, and with data that is null and that is not.  It is SpecUse   *)
(* with the task operations, the receive from an interrupt and the         *)
(* reading of the counter added.                                           *)
(***************************************************************************)
NextCalls ==
    \/ NextUse
    \/ \E h \in Tasks \cup {NULL} :
          \/ uPortTaskIsThis(MainTask, h)
          \/ uPortTaskStackMinFree(MainTask, h)
    \/ \E p \in Pointers : uPortTaskGetHandle(MainTask, p)
    \/ uPortTaskBlock(MainTask, portTICK_PERIOD_MS)
    \/ uPortTaskBlock_ret(MainTask)
    \/ \E h \in Handles \cup {NULL}, p \in Pointers :
          uPortQueueReceiveIrq(MainTask, h, p)
    \/ uPortOsResourceAllocCount(MainTask)

SpecCalls == InitUse /\ [][NextCalls]_vars

(***************************************************************************)
(* C34 (under SpecCalls).  A queue operation (send, send from an           *)
(* interrupt, receive, receive from an interrupt, try-receive, peek)       *)
(* given a null handle or null data, and a mutex or semaphore operation    *)
(* (lock, try-lock, unlock, take, try-take, give, give from an interrupt)  *)
(* given a null handle, returns U_ERROR_COMMON_INVALID_PARAMETER in the    *)
(* step in which it is called, without a kernel call, and no kernel object *)
(* is changed by it; no task is ever found waiting inside such a call.     *)
(***************************************************************************)
\* The call c was given a null handle, or null data where data is looked
\* at.
NullArg(c) ==
    \/ /\ c.op \in {"QueueSend", "QueueSendIrq", "QueueReceive",
                    "QueueReceiveIrq", "QueueTryReceive", "QueuePeek"}
       /\ (c.h = NULL \/ c.p = NULL)
    \/ /\ c.op \in {"MutexLock", "MutexTryLock", "MutexUnlock",
                    "SemaphoreTake", "SemaphoreTryTake", "SemaphoreGive",
                    "SemaphoreGiveIrq"}
       /\ c.h = NULL

C34_NullArgumentIsRefusedBeforeTheKernel ==
    /\ [](\A t \in Tasks : pc[t] # "idle" => ~NullArg(cur[t]))
    /\ [][NullArg(last') =>
             /\ last'.ret = U_ERROR_COMMON_INVALID_PARAMETER
             /\ ~last'.kc
             /\ kObj' = kObj
             /\ crashed' = crashed
             /\ pc[last'.by] = "idle" /\ pc'[last'.by] = "idle"]_vars

\* uPortQueueReceiveIrq() was given the handle of a queue that holds an
\* item and null data: refused, and the item is still there.
C34_Witness ==
    /\ last.op = "QueueReceiveIrq" /\ last.p = NULL
    /\ IsQueue(last.h) /\ kObj[last.h].count > 0
    /\ last.ret = U_ERROR_COMMON_INVALID_PARAMETER
    /\ ~last.kc

(***************************************************************************)
(* C35 (under SpecCalls).  No use operation changes the resource counter,  *)
(* whatever it returns and whether or not it waited: not in the step in    *)
(* which it returns, not in a step in which it goes on (to wait, or into   *)
(* a kernel call that stops the system), and not in sum over the call.     *)
(* The use operations are the task operations is-this, block,              *)
(* stack-min-free and get-handle, the queue operations send, receive,      *)
(* peek and get-free in all their variants, mutex lock, try-lock and       *)
(* unlock, semaphore take, try-take and give in all their variants and     *)
(* timer start, stop and change.  uPortOsResourceAllocCount() returns the  *)
(* counter and leaves it as it is.                                         *)
(***************************************************************************)
UseOps == {"TaskIsThis", "TaskBlock", "TaskStackMinFree", "TaskGetHandle",
           "QueueSend", "QueueSendIrq", "QueueReceive", "QueueReceiveIrq",
           "QueueTryReceive", "QueuePeek", "QueueGetFree",
           "MutexLock", "MutexTryLock", "MutexUnlock",
           "SemaphoreTake", "SemaphoreTryTake", "SemaphoreGive",
           "SemaphoreGiveIrq", "TimerStart", "TimerStop", "TimerChange",
           "ResourceAllocCount"}

C35_UseLeavesCounterAlone ==
    [][/\ (last'.op \in UseOps) =>
             /\ gResourceAllocCount' = gResourceAllocCount
             /\ last'.delta = 0
             /\ (last'.op = "ResourceAllocCount") =>
                    last'.ret = gResourceAllocCount
       /\ \A t \in Tasks :
             (cur'[t].op \in UseOps /\ cur'[t] # cur[t]) =>
                 gResourceAllocCount' = gResourceAllocCount]_vars

\* With two resources counted (the second task and a queue), the second
\* task has received an item from the queue: the counter is still two.
C35_Witness ==
    /\ last.op = "QueueReceive" /\ last.by # MainTask
    /\ last.ret = U_ERROR_COMMON_SUCCESS
    /\ last.delta = 0
    /\ gResourceAllocCount = 2

(***************************************************************************)
(* SpecMutex: one mutex, made by the main task, which also creates the     *)
(* second task; both tasks lock it, try to lock it with no wait and with   *)
(* one tick, and unlock it, whether they hold it or not.  Nothing but the  *)
(* mutex operations is applied to the mutex.                               *)
(***************************************************************************)
NextMutex ==
    \/ uPortTaskCreate(MainTask, ValidPtr, U_CFG_OS_PRIORITY_MIN, ValidPtr)
    \/ uPortTaskCreate_inc(MainTask)
    \/ NoObject /\ uPortMutexCreate(MainTask, ValidPtr)
    \/ uPortMutexCreate_inc(MainTask)
    \/ \E t \in Tasks, h \in Handles :
          /\ kObj[h].kind = "mutex"
          /\ \/ uPortMutexLock(t, h)
             \/ \E delayMs \in Waits : uPortMutexTryLock(t, h, delayMs)
             \/ uPortMutexUnlock(t, h)
    \/ \E t \in Tasks :
          \/ uPortMutexLock_wake(t)
          \/ uPortMutexTryLock_wake(t)
          \/ uPortMutexTryLock_timeout(t)

SpecMutex == InitUse /\ [][NextMutex]_vars

(***************************************************************************)
(* C36 (under SpecMutex).  From the return with success of a task's        *)
(* uPortMutexLock() or uPortMutexTryLock() until uPortMutexUnlock() is     *)
(* next applied to the mutex, no lock or try-lock of the mutex by another  *)
(* task returns success.  In steps: a lock or try-lock returns success     *)
(* only on a mutex that no task holds, and makes its caller the holder;    *)
(* and a mutex that is held goes on being held by the same task through    *)
(* every step but the return of an uPortMutexUnlock() applied to it.  A    *)
(* uPortMutexLock() that waited returns success only from a state in which *)
(* the mutex has been released.                                            *)
(***************************************************************************)
C36_OneHolderUntilUnlock ==
    [][/\ (/\ last'.op \in {"MutexLock", "MutexTryLock"}
           /\ last'.ret = U_ERROR_COMMON_SUCCESS) =>
              /\ kObj[last'.h].holder = NULL
              /\ kObj[last'.h].count = 1
              /\ kObj'[last'.h].holder = last'.by
              /\ kObj'[last'.h].count = 0
       /\ \A h \in Handles :
             (/\ kObj[h].kind = "mutex" /\ kObj[h].holder # NULL
              /\ kObj'[h] # kObj[h]) =>
                 (last'.op = "MutexUnlock" /\ last'.h = h)
       /\ \A t \in Tasks :
             (/\ pc[t] = "MutexLock_wait"
              /\ last'.by = t /\ last'.op = "MutexLock") =>
                 /\ last'.ret = U_ERROR_COMMON_SUCCESS
                 /\ kObj[last'.h].holder = NULL]_vars

\* The second task has locked the mutex and the main task is waiting to
\* lock it.
C36_Witness ==
    /\ last.op = "MutexLock" /\ last.by # MainTask
    /\ last.ret = U_ERROR_COMMON_SUCCESS
    /\ kObj[last.h].holder = last.by
    /\ pc[MainTask] = "MutexLock_wait" /\ cur[MainTask].h = last.h

(***************************************************************************)
(* C37 (under SpecTask).  uPortTaskDelete(NULL) takes one off the resource *)
(* counter in the step in which it is called, whoever calls it (the main   *)
(* task, which no uPortTaskCreate() made, or a task that one did); the     *)
(* kernel deletes the caller in a later step, which leaves the counter     *)
(* alone, so that one is taken off per call; a task is deleted only from   *)
(* inside that call; and no uPortTaskDelete(NULL) is ever seen to return.  *)
(***************************************************************************)
C37_SelfDeleteCountsDownThenDies ==
    /\ [](last.op = "TaskDelete" => last.h # NULL)
    /\ [][\A t \in Tasks :
             /\ (pc[t] = "idle" /\ pc'[t] = "TaskDelete_kill") =>
                    /\ cur'[t].h = NULL
                    /\ gResourceAllocCount' = gResourceAllocCount - 1
                    /\ cur'[t].delta = -1
             /\ (pc[t] = "TaskDelete_kill" /\ pc'[t] = pc[t]) =>
                    cur'[t] = cur[t]
             /\ (pc[t] = "TaskDelete_kill" /\ pc'[t] # pc[t]) =>
                    /\ pc'[t] = "dead"
                    /\ gResourceAllocCount' = gResourceAllocCount
                    /\ last' = NoCall
             /\ (pc[t] # "dead" /\ pc'[t] = "dead") =>
                    (pc[t] = "TaskDelete_kill" /\ cur[t].delta = -1)]_vars

\* The main task, which was not made by uPortTaskCreate(), has deleted
\* itself before anything was created: the counter is one below zero.
C37_Witness ==
    /\ pc[MainTask] = "dead"
    /\ nSelfDel = 1 /\ nCreateOk = 0 /\ kCreated = 0
    /\ gResourceAllocCount = -1

(***************************************************************************)
(* SpecPaired: every destroy is applied to an object that was created      *)
(* through this layer and has not been destroyed.  The main task creates   *)
(* tasks, and one queue, mutex, semaphore or timer at a time, which it     *)
(* deletes after its create has returned; a task that uPortTaskCreate()    *)
(* made deletes itself, which it can do as soon as the kernel has created  *)
(* it.  The main task, which no create made, does not delete itself.       *)
(***************************************************************************)
NextPaired ==
    \/ uPortTaskCreate(MainTask, ValidPtr, U_CFG_OS_PRIORITY_MIN, ValidPtr)
    \/ uPortTaskCreate_inc(MainTask)
    \/ \E t \in Tasks \ {MainTask} :
          \/ uPortTaskDelete(t, NULL)
          \/ uPortTaskDelete_kill(t)
    \/ NoObject /\ uPortQueueCreate(MainTask, 1, ValidPtr)
    \/ uPortQueueCreate_inc(MainTask)
    \/ NoObject /\ uPortMutexCreate(MainTask, ValidPtr)
    \/ uPortMutexCreate_inc(MainTask)
    \/ NoObject /\ uPortSemaphoreCreate(MainTask, ValidPtr, 0, 1)
    \/ uPortSemaphoreCreate_inc(MainTask)
    \/ NoObject /\ uPortTimerCreate(MainTask, ValidPtr)
    \/ uPortTimerCreate_ret(MainTask)
    \/ \E h \in Handles :
          \/ IsQueue(h) /\ uPortQueueDelete(MainTask, h)
          \/ kObj[h].kind = "mutex" /\ uPortMutexDelete(MainTask, h)
          \/ kObj[h].kind = "sem" /\ uPortSemaphoreDelete(MainTask, h)
          \/ IsTimer(h) /\ uPortTimerDelete(MainTask, h)
    \/ uPortQueueDelete_dec(MainTask)
    \/ uPortMutexDelete_dec(MainTask)
    \/ uPortSemaphoreDelete_dec(MainTask)
    \/ uPortTimerDelete_ret(MainTask)
    \/ \E t \in Tasks : uPortOsResourceAllocCount(t)

SpecPaired == Init /\ [][NextPaired]_vars

(***************************************************************************)
(* C38 (under SpecPaired).  The resource counter is not negative in any    *)
(* state.  It is violated: the task that xTaskCreate() has just made runs  *)
(* uPortTaskDelete(NULL), which takes one off the counter, while its       *)
(* creator stands between xTaskCreate() and U_ATOMIC_INCREMENT().          *)
(***************************************************************************)
C38_CounterNeverNegative == gResourceAllocCount >= 0

====
